---- MODULE Spec2Model ----
(***************************************************************************)
(* Model of the x402 authorization layer of Haggl:                         *)
(*   X402Authorizer  (src/src/x402/authorizer.py)                          *)
(*   EscrowManager   (src/src/x402/escrow.py, in-memory "mock" table)      *)
(*   CDPWallet       (src/src/x402/wallet.py, transfer_to_escrow)          *)
(*   CredentialVault (src/src/x402/credential_vault.py)                    *)
(* and of the callers around it: the order approvals and the pay handler   *)
(* of the servers (src/src/server.py, src/src/payment_agent/server.py) and *)
(* the CallingAgent (src/src/calling_agent/agent.py).                      *)
(*                                                                         *)
(* Amounts are whole dollars (the rounding of Python floats is not         *)
(* modelled).  Time is a clock of whole days: the date                     *)
(* string used as the key of _daily_spending is the clock value, and the   *)
(* 72 hour escrow expiry is ExpiryDays days.  Random identifiers           *)
(* (secrets.token_urlsafe / token_hex) are fresh values drawn from the     *)
(* counter nextId.  Wall-clock stamps that no operation ever reads         *)
(* (timestamp, locked_at, released_at) are not carried; expires_at is.     *)
(***************************************************************************)
EXTENDS Integers, Sequences, FiniteSets, TLC

\* ---------------------------------------------------------------- bounds
MaxAuth == 3        \* authorize calls that reach the token mint
MaxDay == 4         \* last day the clock reaches
MaxSpendDay == 1    \* last day on which authorize is called
NProcs == 2         \* concurrent authorize callers
MaxLocks == 2       \* locks created directly through EscrowManager.create_lock
MaxTimeouts == 2    \* transfers that time out waiting for their receipt
MaxStores == 1      \* store_credentials calls
MaxLog == 2         \* entries of the credential audit trail
MaxRestarts == 1    \* restarts of the vault process with a new Fernet key

\* ------------------------------------------------------ program constants
InitialMockBalance == 10000
ExpiryDays == 3

\* ----------------------------------------------------------------- inputs
Invoices == {"inv1", "inv2"}
None == "None"            \* None of an Optional[str]
Nil == <<>>               \* None of an optional identifier or number
Some(x) == <<x>>          \* a present Optional[float]
CallerIds == {<<"caller", 0, 1>>}    \* idempotency keys a caller supplies
Amounts == {1, 2, 3}
Budgets == {1, 3}
BudgetTotals == {3}
LockInvoices == {"inv1"}   \* invoices of the locks created on the manager
LockAmounts == {2, 150}    \* and their amounts
Vendors == {"vendor1"}
AchConfirmations == {"ach1"}
RefundReasons == {"payment_failed"}
Procs == 1..NProcs
\* business ids: the payer the authorizer names on a lock when the request
\* carries no request_id, and another business
DefaultBusiness == <<"default_business", 0, 0>>
Owners == {DefaultBusiness, <<"biz2", 0, 0>>}
RoutingNumbers == {<<0, 2, 1, 0, 0, 0, 0, 2, 1>>}
AccountNumbers == {<<1, 2, 3, 4, 5, 6, 7, 8, 9, 0, 1, 2>>}
AccountNames == {"Acme Bakery"}

\* SpendingPolicy objects the authorizer may be constructed with
Policies ==
  { [per_transaction_max |-> 2, daily_limit |-> 2, weekly_limit |-> 3] }

\* the policy and the requests of the daily-limit scenario: invoices of 300
\* and 400 against per_transaction_max 500 and daily_limit 1000, the weekly
\* limit at its default
ScenarioPolicy ==
  [per_transaction_max |-> 500, daily_limit |-> 1000, weekly_limit |-> 5000]
ScenarioRequests ==
  [invoice_id : {"inv1", "inv2", "inv3"}, vendor_id : Vendors,
   amount_usd : {300, 400}, budget_total : {5000}, budget_remaining : {5000},
   request_id : {Nil}]

\* Invoice.amount_usd is a float without a constraint: requests whose amount
\* is negative are requests a caller can send
SignedRequests ==
  [invoice_id : Invoices, vendor_id : Vendors, amount_usd : {-1, 2},
   budget_total : BudgetTotals, budget_remaining : {3}, request_id : {Nil}]

\* wallet implementations: the in-memory mock, or a real (web3 / cdp) one
WalletModes == {"mock", "real"}

AUTHORIZED == "authorized"
REJECTED == "rejected"
LOCKED == "locked"
RELEASED == "released"
REFUNDED == "refunded"
EXPIRED == "expired"
Terminal == {RELEASED, REFUNDED, EXPIRED}

VARIABLES
  policy,             \* self.policy
  wallet_mode,        \* which wallet the authorizer was built with
  authorizations,     \* self._authorizations : request_id -> response
  daily_spending,     \* self._daily_spending : date -> amount
  weekly_spending,    \* self._weekly_spending
  auth_tokens,        \* self._auth_tokens : token -> invoice_id
  token_to_escrow,    \* self._token_to_escrow : token -> escrow_id
  mock_escrows,       \* EscrowManager._mock_escrows : escrow_id -> lock
  mock_releases,      \* EscrowManager._mock_releases
  mock_balance_usdc,  \* CDPWallet._mock_balance_usdc
  chain,              \* Base Sepolia as a non-mock wallet sees it
  vault,              \* the CredentialVault: mode, key, records, audit trail
  now,                \* datetime.utcnow(), in days
  nextId,             \* number of random identifiers drawn so far
  pending,            \* calls suspended at an await: position and locals
  consumed_ok,        \* history: token -> consume calls that returned its invoice
  pending_approvals,  \* server._pending_approvals : order_id -> order
  payment_history,    \* PaymentExecutor._payment_history : invoice_id -> result
  agent,              \* the CallingAgent: state, call_id, outcome, error, history
  vapi_calls,         \* the vendor calls placed through Vapi, in order
  ret                 \* what the last operation returned

vars == <<policy, wallet_mode, vault, authorizations, daily_spending, weekly_spending,
          auth_tokens, token_to_escrow, mock_escrows, mock_releases,
          mock_balance_usdc, chain, now, nextId, pending, consumed_ok,
          pending_approvals, payment_history, agent, vapi_calls, ret>>

authVars == <<authorizations, daily_spending, weekly_spending, auth_tokens,
              token_to_escrow>>
escrowVars == <<mock_escrows, mock_releases>>
appVars == <<payment_history, agent, vapi_calls>>

\* ---------------------------------------------------------------- helpers
EmptyMap == [x \in {} |-> 0]

\* dict.get(key, default)
Get(d, k, default) == IF k \in DOMAIN d THEN d[k] ELSE default

\* d[k] = v
Put(d, k, v) == [x \in (DOMAIN d) \cup {k} |-> IF x = k THEN v ELSE d[x]]

\* d.pop(k)
Remove(d, k) == [x \in (DOMAIN d) \ {k} |-> d[x]]

\* the sum of the amounts of the locks S
RECURSIVE SumLockAmounts(_)
SumLockAmounts(S) ==
  IF S = {} THEN 0
  ELSE LET e == CHOOSE x \in S : TRUE
       IN  mock_escrows[e].amount_usdc + SumLockAmounts(S \ {e})

Idle == [pc |-> "idle"]

Requests ==
  [invoice_id : Invoices, vendor_id : Vendors, amount_usd : Amounts,
   budget_total : BudgetTotals, budget_remaining : Budgets,
   request_id : CallerIds \cup {Nil}]

\* CredentialVault.__init__: the in-memory vault (mock_mode) or the vault on
\* MongoDB with its Fernet key; no credentials, an empty audit trail
NewVault(mock_mode) ==
  [mock_mode |-> mock_mode, key |-> 1, mock_credentials |-> EmptyMap,
   credentials |-> EmptyMap, access_log |-> <<>>, stores |-> 0]

\* AgentState
READY_TO_CALL == "ready_to_call"
CALL_IN_PROGRESS == "call_in_progress"
PROCESSING == "processing"
CONFIRMED == "confirmed"
PLACED == "placed"
FAILED == "failed"

\* CallingAgent.__init__
NewAgent ==
  [state |-> READY_TO_CALL, call_id |-> Nil, outcome |-> Nil, error |-> None,
   call_history |-> EmptyMap]

\* the state after construction, whichever wallet was built
Fresh ==
  /\ authorizations = EmptyMap
  /\ daily_spending = EmptyMap
  /\ weekly_spending = 0
  /\ auth_tokens = EmptyMap
  /\ token_to_escrow = EmptyMap
  /\ mock_escrows = EmptyMap
  /\ mock_releases = <<>>
  /\ mock_balance_usdc = InitialMockBalance
  /\ chain = [escrow_usdc |-> 0, mempool |-> <<>>, timeouts |-> 0]
  /\ now = 0
  /\ nextId = 0
  /\ pending = [p \in Procs |-> Idle]
  /\ consumed_ok = EmptyMap
  /\ pending_approvals = EmptyMap
  /\ payment_history = EmptyMap
  /\ agent = NewAgent
  /\ vapi_calls = <<>>
  /\ ret = [op |-> "init"]

Init ==
  /\ policy \in Policies
  /\ wallet_mode \in WalletModes
  /\ vault = NewVault(TRUE)
  /\ Fresh

\* a wallet built with WALLET_PRIVATE_KEY: CDPWallet.mode = "web3"
InitWeb3 ==
  /\ policy \in Policies
  /\ wallet_mode = "web3"
  /\ vault = NewVault(TRUE)
  /\ Fresh

\* the authorizer of the daily-limit scenario
InitScenario ==
  /\ policy = ScenarioPolicy
  /\ wallet_mode \in WalletModes
  /\ vault = NewVault(TRUE)
  /\ Fresh

\* the authorizer on the mock wallet with a vault of either mode
InitVault ==
  /\ policy \in Policies
  /\ wallet_mode = "mock"
  /\ vault \in {NewVault(m) : m \in BOOLEAN}
  /\ Fresh

\* ------------------------------------------------------------ identifiers
Token(n) == <<"token", n>>            \* secrets.token_urlsafe(32)
EscrowId(n) == <<"escrow", n>>        \* f"escrow_{secrets.token_hex(8)}"
TxHash(n) == <<"tx", n>>              \* hash returned by the wallet
GenRequestId(p, n) == <<"gen", p, n>> \* secrets.token_urlsafe(16)
Tokens == {Token(n) : n \in 1..MaxAuth}
EscrowIds == {EscrowId(n) : n \in 1..MaxAuth}

\* request.request_id or secrets.token_urlsafe(16)
RequestIdOf(req, p) ==
  IF req.request_id # Nil THEN req.request_id ELSE GenRequestId(p, nextId)

\* --------------------------------------------- X402Authorizer._check_policies
ReasonPerTransaction == "exceeds per-transaction limit"
ReasonDaily == "Would exceed daily limit"
ReasonBudget == "exceeds remaining budget"
ReasonDuplicate == "Duplicate authorization for invoice"
ReasonPassed == "All policy checks passed"

PerTransactionPassed(amount) == amount <= policy.per_transaction_max

\* a daily check that forgets what was already spent today
DailyLimitIgnoresSpent(amount) == amount <= policy.daily_limit

\* a daily check that refuses the amount that reaches the limit exactly
DailyLimitStrict(amount) ==
  (Get(daily_spending, now, 0) + amount) < policy.daily_limit

DailyLimitPassed(amount) ==
  (Get(daily_spending, now, 0) + amount) <= policy.daily_limit

\* a budget check against the total budget instead of the remaining one
BudgetAgainstTotal(amount, req) == amount <= req.budget_total

BudgetPassed(amount, req) == amount <= req.budget_remaining

\* a duplicate test that counts an authorization only while its token is live
IsDuplicateWhileLive(invoice_id) ==
  \E r \in DOMAIN authorizations :
     /\ authorizations[r].invoice_id = invoice_id
     /\ authorizations[r].status = AUTHORIZED
     /\ authorizations[r].auth_token \in DOMAIN auth_tokens

IsDuplicate(invoice_id) ==
  \E r \in DOMAIN authorizations :
     /\ authorizations[r].invoice_id = invoice_id
     /\ authorizations[r].status = AUTHORIZED

\* a _check_policies that looks at the budget before the daily limit
CheckPoliciesBudgetFirst(req) ==
  LET amount == req.amount_usd
      c1 == "per_transaction" :> PerTransactionPassed(amount)
      c2 == c1 @@ ("budget" :> BudgetPassed(amount, req))
      c3 == c2 @@ ("daily_limit" :> DailyLimitPassed(amount))
      c4 == c3 @@ ("duplicate" :> ~IsDuplicate(req.invoice_id))
  IN  IF ~c1["per_transaction"]
        THEN [allowed |-> FALSE, reason |-> ReasonPerTransaction, checks |-> c1]
      ELSE IF ~c2["budget"]
        THEN [allowed |-> FALSE, reason |-> ReasonBudget, checks |-> c2]
      ELSE IF ~c3["daily_limit"]
        THEN [allowed |-> FALSE, reason |-> ReasonDaily, checks |-> c3]
      ELSE IF ~c4["duplicate"]
        THEN [allowed |-> FALSE, reason |-> ReasonDuplicate, checks |-> c4]
      ELSE [allowed |-> TRUE, reason |-> ReasonPassed, checks |-> c4]

CheckPolicies(req) ==
  LET amount == req.amount_usd
      c1 == "per_transaction" :> PerTransactionPassed(amount)
      c2 == c1 @@ ("daily_limit" :> DailyLimitPassed(amount))
      c3 == c2 @@ ("budget" :> BudgetPassed(amount, req))
      c4 == c3 @@ ("duplicate" :> ~IsDuplicate(req.invoice_id))
  IN  IF ~c1["per_transaction"]
        THEN [allowed |-> FALSE, reason |-> ReasonPerTransaction, checks |-> c1]
      ELSE IF ~c2["daily_limit"]
        THEN [allowed |-> FALSE, reason |-> ReasonDaily, checks |-> c2]
      ELSE IF ~c3["budget"]
        THEN [allowed |-> FALSE, reason |-> ReasonBudget, checks |-> c3]
      ELSE IF ~c4["duplicate"]
        THEN [allowed |-> FALSE, reason |-> ReasonDuplicate, checks |-> c4]
      ELSE [allowed |-> TRUE, reason |-> ReasonPassed, checks |-> c4]

\* ------------------------------------------- CDPWallet.transfer_to_escrow
\* The results the awaited transfer can have.  The mock wallet fails exactly
\* on insufficient balance; a real wallet's result is decided by the chain;
\* "raise" is a wallet whose transfer throws.  `sent` marks a transfer whose
\* raw transaction was sent and whose receipt was not seen.
\* _web3_transfer: the receipt has status 1 ("ok") or another status
\* ("Transaction failed"), or wait_for_transaction_receipt(timeout=60) raises
\* after send_raw_transaction and the except clause turns that into
\* success = False with the text of the exception.
ErrorTimeout == "Transaction is not in the chain after 60 seconds"

TransferOutcomes(amount) ==
  IF wallet_mode = "mock"
    THEN IF amount > mock_balance_usdc
           THEN {[kind |-> "fail", error |-> "Insufficient balance", sent |-> FALSE]}
           ELSE {[kind |-> "ok", error |-> None, sent |-> FALSE]}
  ELSE IF wallet_mode = "web3"
    THEN {[kind |-> "ok", error |-> None, sent |-> FALSE],
          [kind |-> "fail", error |-> "Transaction failed", sent |-> FALSE]}
         \cup (IF chain.timeouts < MaxTimeouts
                 THEN {[kind |-> "fail", error |-> ErrorTimeout, sent |-> TRUE]}
                 ELSE {})
    ELSE {[kind |-> "ok", error |-> None, sent |-> FALSE],
          [kind |-> "fail", error |-> "Transaction failed", sent |-> FALSE],
          [kind |-> "raise", error |-> "exception", sent |-> FALSE]}

\* the chain after a transfer of a non-mock wallet: a confirmed transfer has
\* moved the amount to the escrow address; a transfer that timed out has left
\* its transaction with the network
ChainAfter(amount, out) ==
  IF wallet_mode = "mock" THEN chain
  ELSE IF out.kind = "ok"
    THEN [chain EXCEPT !.escrow_usdc = @ + amount]
  ELSE IF out.sent
    THEN [chain EXCEPT !.mempool = Append(@, amount), !.timeouts = @ + 1]
  ELSE chain

\* ---------------------------------------------- EscrowManager.create_lock
NewLock(escrow_id, invoice_id, business_id, amount, auth_token, tx_hash, vendor_id) ==
  [escrow_id |-> escrow_id, invoice_id |-> invoice_id,
   business_id |-> business_id, vendor_id |-> vendor_id,
   amount_usdc |-> amount, auth_token |-> auth_token, tx_hash |-> tx_hash,
   status |-> LOCKED, expires_at |-> now + ExpiryDays,
   release_tx_hash |-> Nil, release_recipient |-> Nil,
   refund_reason |-> None]

\* ----------------------------------------------- AuthorizationResponse
RejectedResponse(req, request_id, error, checks) ==
  [request_id |-> request_id, invoice_id |-> req.invoice_id,
   status |-> REJECTED, auth_token |-> Nil, tx_hash |-> Nil,
   amount_authorized |-> Nil, error |-> error,
   policy_checks |-> checks]

AuthorizedResponse(req, request_id, token, tx_hash, checks) ==
  [request_id |-> request_id, invoice_id |-> req.invoice_id,
   status |-> AUTHORIZED, auth_token |-> token, tx_hash |-> tx_hash,
   amount_authorized |-> Some(req.amount_usd), error |-> None,
   policy_checks |-> checks]

\* what an authorize call hands back: the response (the request id only of
\* an AUTHORIZED one), the budget the request carried and what the wallet did
AuthorizeRet(req, resp, transfer) ==
  [op |-> "authorize", invoice_id |-> resp.invoice_id, status |-> resp.status,
   error |-> resp.error, policy_checks |-> resp.policy_checks,
   auth_token |-> resp.auth_token, amount_authorized |-> resp.amount_authorized,
   request_id |-> IF resp.status = AUTHORIZED THEN resp.request_id ELSE Nil,
   budget_remaining |-> IF resp.status = AUTHORIZED
                          THEN Some(req.budget_remaining) ELSE Nil,
   transfer |-> transfer]

\* X402Authorizer._record_spending
RecordSpending(amount) ==
  /\ daily_spending' = Put(daily_spending, now, Get(daily_spending, now, 0) + amount)
  /\ weekly_spending' = weekly_spending + amount

\* a policy rejection that caches its REJECTED response like a granted one
AuthorizeRejectCaches(req, request_id, pr) ==
  /\ ret' = AuthorizeRet(req, RejectedResponse(req, request_id, pr.reason, pr.checks), "none")
  /\ authorizations' = Put(authorizations, request_id,
                           RejectedResponse(req, request_id, pr.reason, pr.checks))
  /\ UNCHANGED <<daily_spending, weekly_spending, auth_tokens, token_to_escrow,
                 escrowVars, mock_balance_usdc, chain, nextId>>

\* authorize, step 1 failed: the REJECTED response of a policy check
AuthorizeReject(req, request_id, pr) ==
  /\ ret' = AuthorizeRet(req, RejectedResponse(req, request_id, pr.reason, pr.checks), "none")
  /\ UNCHANGED <<authVars, escrowVars, mock_balance_usdc, chain, nextId>>

\* an authorize that creates the escrow lock before it looks at the transfer
\* result
AuthorizeFinishLocksFirst(req, request_id, pr, out) ==
  LET n == nextId + 1
      lock == NewLock(EscrowId(n), req.invoice_id, DefaultBusiness,
                      req.amount_usd, "pending", TxHash(n), req.vendor_id)
  IN  /\ mock_escrows' = Put(mock_escrows, lock.escrow_id, lock)
      /\ nextId' = n
      /\ ret' = AuthorizeRet(req, RejectedResponse(req, request_id, out.error, pr.checks), out.kind)
      /\ UNCHANGED <<authVars, mock_releases, mock_balance_usdc, chain>>

\* an authorize that records the spend before it looks at the transfer
\* result
AuthorizeFinishRecordsFirst(req, request_id, pr, out) ==
  IF out.kind # "ok"
    THEN /\ ret' = AuthorizeRet(req, RejectedResponse(req, request_id, out.error, pr.checks), out.kind)
         /\ RecordSpending(req.amount_usd)
         /\ chain' = ChainAfter(req.amount_usd, out)
         /\ UNCHANGED <<authorizations, auth_tokens, token_to_escrow,
                        escrowVars, mock_balance_usdc, nextId>>
    ELSE LET n == nextId + 1
             amount == req.amount_usd
             lock == NewLock(EscrowId(n), req.invoice_id, DefaultBusiness,
                             amount, "pending", TxHash(n), req.vendor_id)
             resp == AuthorizedResponse(req, request_id, Token(n), TxHash(n), pr.checks)
         IN  /\ mock_balance_usdc' = IF wallet_mode = "mock"
                                      THEN mock_balance_usdc - amount
                                      ELSE mock_balance_usdc
             /\ chain' = ChainAfter(amount, out)
             /\ mock_escrows' = Put(mock_escrows, lock.escrow_id, lock)
             /\ auth_tokens' = Put(auth_tokens, Token(n), req.invoice_id)
             /\ token_to_escrow' = Put(token_to_escrow, Token(n), lock.escrow_id)
             /\ RecordSpending(amount)
             /\ authorizations' = Put(authorizations, request_id, resp)
             /\ nextId' = n
             /\ ret' = AuthorizeRet(req, resp, "ok")
             /\ UNCHANGED mock_releases

\* an authorize that mints its token without linking it to the escrow lock
AuthorizeFinishUnlinked(req, request_id, pr, out) ==
  IF out.kind # "ok"
    THEN /\ ret' = AuthorizeRet(req, RejectedResponse(req, request_id, out.error, pr.checks), out.kind)
         /\ chain' = ChainAfter(req.amount_usd, out)
         /\ UNCHANGED <<authVars, escrowVars, mock_balance_usdc, nextId>>
    ELSE LET n == nextId + 1
             amount == req.amount_usd
             business_id == IF req.request_id # Nil THEN req.request_id
                            ELSE DefaultBusiness
             lock == NewLock(EscrowId(n), req.invoice_id, business_id, amount,
                             "pending", TxHash(n), req.vendor_id)
             resp == AuthorizedResponse(req, request_id, Token(n), TxHash(n), pr.checks)
         IN  /\ mock_balance_usdc' = IF wallet_mode = "mock"
                                      THEN mock_balance_usdc - amount
                                      ELSE mock_balance_usdc
             /\ chain' = ChainAfter(amount, out)
             /\ mock_escrows' = Put(mock_escrows, lock.escrow_id, lock)
             /\ auth_tokens' = Put(auth_tokens, Token(n), req.invoice_id)
             /\ token_to_escrow' = token_to_escrow
             /\ RecordSpending(amount)
             /\ authorizations' = Put(authorizations, request_id, resp)
             /\ nextId' = n
             /\ ret' = AuthorizeRet(req, resp, "ok")
             /\ UNCHANGED mock_releases

\* authorize, steps 2 to 6: the transfer returned `out`
AuthorizeFinish(req, request_id, pr, out) ==
  IF out.kind # "ok"
    THEN /\ ret' = AuthorizeRet(req, RejectedResponse(req, request_id, out.error, pr.checks), out.kind)
         /\ chain' = ChainAfter(req.amount_usd, out)
         /\ UNCHANGED <<authVars, escrowVars, mock_balance_usdc, nextId>>
    ELSE LET n == nextId + 1
             amount == req.amount_usd
             business_id == IF req.request_id # Nil THEN req.request_id
                            ELSE DefaultBusiness
             lock == NewLock(EscrowId(n), req.invoice_id, business_id, amount,
                             "pending", TxHash(n), req.vendor_id)
             resp == AuthorizedResponse(req, request_id, Token(n), TxHash(n), pr.checks)
         IN  /\ mock_balance_usdc' = IF wallet_mode = "mock"
                                      THEN mock_balance_usdc - amount
                                      ELSE mock_balance_usdc
             /\ chain' = ChainAfter(amount, out)
             /\ mock_escrows' = Put(mock_escrows, lock.escrow_id, lock)
             /\ auth_tokens' = Put(auth_tokens, Token(n), req.invoice_id)
             /\ token_to_escrow' = Put(token_to_escrow, Token(n), lock.escrow_id)
             /\ RecordSpending(amount)
             /\ authorizations' = Put(authorizations, request_id, resp)
             /\ nextId' = n
             /\ ret' = AuthorizeRet(req, resp, "ok")
             /\ UNCHANGED mock_releases

\* X402Authorizer.authorize, run without suspension, on whatever day it is
AuthorizeCall(req) ==
  /\ nextId < MaxAuth
  /\ LET request_id == RequestIdOf(req, 0)
         pr == CheckPolicies(req)
     IN  IF ~pr.allowed
           THEN AuthorizeReject(req, request_id, pr)
           ELSE \E out \in TransferOutcomes(req.amount_usd) :
                   AuthorizeFinish(req, request_id, pr, out)
  /\ UNCHANGED <<appVars, pending_approvals,
                 policy, wallet_mode, vault, now, pending, consumed_ok>>

\* authorize, called on the first days only
Authorize(req) ==
  /\ now <= MaxSpendDay
  /\ AuthorizeCall(req)

\* consume_auth_token that reads the token with get() and leaves it live
ConsumeAuthTokenKeeps(token) ==
  LET result == Get(auth_tokens, token, None)
  IN  /\ auth_tokens' = auth_tokens
      /\ consumed_ok' = IF result # None
                          THEN Put(consumed_ok, token,
                                   IF Get(consumed_ok, token, 0) < 2
                                     THEN Get(consumed_ok, token, 0) + 1 ELSE 2)
                          ELSE consumed_ok
      /\ ret' = [op |-> "consume", token |-> token, result |-> result]
      /\ UNCHANGED <<appVars, pending_approvals,
                     policy, wallet_mode, vault, authorizations, daily_spending,
                     weekly_spending, token_to_escrow, escrowVars,
                     mock_balance_usdc, chain, now, nextId, pending>>

\* a consume_auth_token that also forgets which escrow the token paid into
ConsumeAuthTokenUnbinds(token) ==
  LET result == Get(auth_tokens, token, None)
  IN  /\ auth_tokens' = Remove(auth_tokens, token)
      /\ token_to_escrow' = Remove(token_to_escrow, token)
      /\ consumed_ok' = IF result # None
                          THEN Put(consumed_ok, token,
                                   IF Get(consumed_ok, token, 0) < 2
                                     THEN Get(consumed_ok, token, 0) + 1 ELSE 2)
                          ELSE consumed_ok
      /\ ret' = [op |-> "consume", token |-> token, result |-> result]
      /\ UNCHANGED <<appVars, pending_approvals,
                     policy, wallet_mode, vault, authorizations, daily_spending,
                     weekly_spending, escrowVars,
                     mock_balance_usdc, chain, now, nextId, pending>>

\* X402Authorizer.consume_auth_token
ConsumeAuthToken(token) ==
  LET result == Get(auth_tokens, token, None)
  IN  /\ auth_tokens' = Remove(auth_tokens, token)
      /\ consumed_ok' = IF result # None
                          THEN Put(consumed_ok, token,
                                   IF Get(consumed_ok, token, 0) < 2
                                     THEN Get(consumed_ok, token, 0) + 1 ELSE 2)
                          ELSE consumed_ok
      /\ ret' = [op |-> "consume", token |-> token, result |-> result]
      /\ UNCHANGED <<appVars, pending_approvals,
                     policy, wallet_mode, vault, authorizations, daily_spending,
                     weekly_spending, token_to_escrow, escrowVars,
                     mock_balance_usdc, chain, now, nextId, pending>>

\* a verify_auth_token that takes the token out of the live set to look at it
VerifyAuthTokenPops(token, invoice_id) ==
  /\ ret' = [op |-> "verify", token |-> token, invoice_id |-> invoice_id,
             result |-> (Get(auth_tokens, token, None) = invoice_id)]
  /\ auth_tokens' = Remove(auth_tokens, token)
  /\ UNCHANGED <<appVars, pending_approvals,
                 policy, wallet_mode, vault, authorizations, daily_spending,
                 weekly_spending, token_to_escrow, escrowVars,
                 mock_balance_usdc, chain, now, nextId, pending, consumed_ok>>

\* X402Authorizer.verify_auth_token
VerifyAuthToken(token, invoice_id) ==
  /\ ret' = [op |-> "verify", token |-> token, invoice_id |-> invoice_id,
             result |-> (Get(auth_tokens, token, None) = invoice_id)]
  /\ UNCHANGED <<appVars, pending_approvals,
                 policy, wallet_mode, vault,
                 authVars, escrowVars, mock_balance_usdc,
                 chain, now, nextId, pending, consumed_ok>>

\* X402Authorizer.get_spending_summary
GetSpendingSummary ==
  [today |-> Get(daily_spending, now, 0),
   daily_limit |-> policy.daily_limit,
   daily_remaining |-> policy.daily_limit - Get(daily_spending, now, 0),
   weekly_total |-> weekly_spending,
   weekly_limit |-> policy.weekly_limit,
   weekly_remaining |-> policy.weekly_limit - weekly_spending]

\* X402Authorizer.reset
Reset ==
  /\ authorizations' = EmptyMap
  /\ daily_spending' = EmptyMap
  /\ weekly_spending' = 0
  /\ auth_tokens' = EmptyMap
  /\ token_to_escrow' = EmptyMap
  /\ ret' = [op |-> "reset"]
  /\ UNCHANGED <<appVars, pending_approvals,
                 policy, wallet_mode, vault,
                 escrowVars, mock_balance_usdc, chain, now,
                 nextId, pending, consumed_ok>>

\* --------------------------------------------------------- EscrowManager
\* a release whose status test lets every lock except a REFUNDED one through
ReleaseUnlessRefunded(escrow_id, vendor_id, vendor_wallet, ach_confirmation) ==
  IF escrow_id \notin DOMAIN mock_escrows
    THEN [escrows |-> mock_escrows, releases |-> mock_releases, release |-> Nil]
  ELSE IF mock_escrows[escrow_id].status = REFUNDED
    THEN [escrows |-> mock_escrows, releases |-> mock_releases, release |-> Nil]
  ELSE
    LET lock == mock_escrows[escrow_id]
        k == Len(mock_releases) + 1
        release_tx == <<"release_tx", k>>
        release == [release_id |-> <<"release", k>>, escrow_id |-> escrow_id,
                    invoice_id |-> lock.invoice_id, vendor_id |-> vendor_id,
                    vendor_wallet |-> vendor_wallet,
                    vendor_bank_confirmed |-> (ach_confirmation # None),
                    amount_usdc |-> lock.amount_usdc, tx_hash |-> release_tx,
                    ach_confirmation |-> ach_confirmation]
        updated == [lock EXCEPT !.status = RELEASED,
                                !.release_tx_hash = release_tx,
                                !.release_recipient = <<"ACH", ach_confirmation>>]
    IN  [escrows |-> Put(mock_escrows, escrow_id, updated),
         releases |-> IF Len(mock_releases) < MaxAuth
                        THEN Append(mock_releases, release) ELSE mock_releases,
         release |-> Some(release)]

\* release_to_vendor: the lock table, the release list and the returned
\* EscrowRelease (Nil for None) after the call
ReleaseToVendorResult(escrow_id, vendor_id, vendor_wallet, ach_confirmation) ==
  IF escrow_id \notin DOMAIN mock_escrows
    THEN [escrows |-> mock_escrows, releases |-> mock_releases, release |-> Nil]
  ELSE IF mock_escrows[escrow_id].status # LOCKED
    THEN [escrows |-> mock_escrows, releases |-> mock_releases, release |-> Nil]
  ELSE
    LET lock == mock_escrows[escrow_id]
        k == Len(mock_releases) + 1
        release_tx == <<"release_tx", k>>
        release == [release_id |-> <<"release", k>>, escrow_id |-> escrow_id,
                    invoice_id |-> lock.invoice_id, vendor_id |-> vendor_id,
                    vendor_wallet |-> vendor_wallet,
                    vendor_bank_confirmed |-> (ach_confirmation # None),
                    amount_usdc |-> lock.amount_usdc, tx_hash |-> release_tx,
                    ach_confirmation |-> ach_confirmation]
        updated == [lock EXCEPT !.status = RELEASED,
                                !.release_tx_hash = release_tx,
                                !.release_recipient =
                                   IF vendor_wallet # None
                                     THEN <<"wallet", vendor_wallet>>
                                     ELSE <<"ACH", ach_confirmation>>]
    IN  [escrows |-> Put(mock_escrows, escrow_id, updated),
         releases |-> Append(mock_releases, release),
         release |-> Some(release)]

\* a refund that does not look at the status of the lock
RefundAnyStatus(escrow_id, reason) ==
  IF escrow_id \notin DOMAIN mock_escrows
    THEN [escrows |-> mock_escrows, success |-> FALSE]
  ELSE
    LET lock == mock_escrows[escrow_id]
        updated == [lock EXCEPT !.status = REFUNDED,
                                !.refund_reason = reason]
    IN  [escrows |-> Put(mock_escrows, escrow_id, updated), success |-> TRUE]

\* a refund that also refuses a lock whose expiry time has passed
RefundUnlessOverdue(escrow_id, reason) ==
  IF escrow_id \notin DOMAIN mock_escrows
    THEN [escrows |-> mock_escrows, success |-> FALSE]
  ELSE IF mock_escrows[escrow_id].status # LOCKED
          \/ now > mock_escrows[escrow_id].expires_at
    THEN [escrows |-> mock_escrows, success |-> FALSE]
  ELSE
    LET lock == mock_escrows[escrow_id]
        updated == [lock EXCEPT !.status = REFUNDED,
                                !.refund_reason = reason]
    IN  [escrows |-> Put(mock_escrows, escrow_id, updated), success |-> TRUE]

\* refund_to_business: the lock table and the returned flag after the call
RefundToBusinessResult(escrow_id, reason) ==
  IF escrow_id \notin DOMAIN mock_escrows
    THEN [escrows |-> mock_escrows, success |-> FALSE]
  ELSE IF mock_escrows[escrow_id].status # LOCKED
    THEN [escrows |-> mock_escrows, success |-> FALSE]
  ELSE
    LET lock == mock_escrows[escrow_id]
        updated == [lock EXCEPT !.status = REFUNDED,
                                !.refund_reason = reason]
    IN  [escrows |-> Put(mock_escrows, escrow_id, updated), success |-> TRUE]

\* the locks expire_old_locks moves to EXPIRED
IsExpirable(lock) == lock.status = LOCKED /\ now > lock.expires_at

\* EscrowManager.create_lock, called on the manager itself
CreateLock(invoice_id, business_id, amount_usdc, vendor_id) ==
  /\ Cardinality(DOMAIN mock_escrows) < MaxLocks
  /\ now <= MaxSpendDay
  /\ LET n == nextId + 1
         lock == NewLock(EscrowId(n), invoice_id, business_id, amount_usdc,
                         "pending", TxHash(n), vendor_id)
     IN  /\ mock_escrows' = Put(mock_escrows, lock.escrow_id, lock)
         /\ nextId' = n
         /\ ret' = [op |-> "create_lock", lock |-> lock]
  /\ UNCHANGED <<appVars, pending_approvals,
                 policy, wallet_mode, vault, authVars, mock_releases,
                 mock_balance_usdc, chain, now, pending, consumed_ok>>

\* a release that marks the lock RELEASED and files no EscrowRelease
ReleaseToVendorNoRecord(escrow_id, vendor_id, vendor_wallet, ach_confirmation) ==
  LET r == ReleaseToVendorResult(escrow_id, vendor_id, vendor_wallet, ach_confirmation)
  IN  /\ mock_escrows' = r.escrows
      /\ mock_releases' = mock_releases
      /\ ret' = [op |-> "release_to_vendor", escrow_id |-> escrow_id,
                 release |-> r.release]
      /\ UNCHANGED <<appVars, pending_approvals,
                     policy, wallet_mode, vault,
                     authVars, mock_balance_usdc, chain, now,
                     nextId, pending, consumed_ok>>

\* EscrowManager.release_to_vendor
ReleaseToVendor(escrow_id, vendor_id, vendor_wallet, ach_confirmation) ==
  LET r == ReleaseToVendorResult(escrow_id, vendor_id, vendor_wallet, ach_confirmation)
  IN  /\ mock_escrows' = r.escrows
      /\ mock_releases' = r.releases
      /\ ret' = [op |-> "release_to_vendor", escrow_id |-> escrow_id,
                 release |-> r.release]
      /\ UNCHANGED <<appVars, pending_approvals,
                     policy, wallet_mode, vault,
                     authVars, mock_balance_usdc, chain, now,
                     nextId, pending, consumed_ok>>

\* EscrowManager.refund_to_business
RefundToBusiness(escrow_id, reason) ==
  LET r == RefundToBusinessResult(escrow_id, reason)
  IN  /\ mock_escrows' = r.escrows
      /\ ret' = [op |-> "refund_to_business", escrow_id |-> escrow_id,
                 success |-> r.success]
      /\ UNCHANGED <<appVars, pending_approvals,
                     policy, wallet_mode, vault, authVars, mock_releases,
                     mock_balance_usdc, chain, now, nextId, pending, consumed_ok>>

\* a sweep that hands the amounts of the locks it expires back to the
\* weekly allowance
ExpireOldLocksGivesBack ==
  LET expired == {e \in DOMAIN mock_escrows : IsExpirable(mock_escrows[e])}
  IN  /\ mock_escrows' = [e \in DOMAIN mock_escrows |->
                            IF e \in expired
                              THEN [mock_escrows[e] EXCEPT !.status = EXPIRED]
                              ELSE mock_escrows[e]]
      /\ weekly_spending' = weekly_spending - SumLockAmounts(expired)
      /\ ret' = [op |-> "expire_old_locks", count |-> Cardinality(expired)]
      /\ UNCHANGED <<appVars, pending_approvals,
                     policy, wallet_mode, vault, authorizations, daily_spending,
                     auth_tokens, token_to_escrow, mock_releases,
                     mock_balance_usdc, chain, now, nextId, pending, consumed_ok>>

\* EscrowManager.expire_old_locks
ExpireOldLocks ==
  LET expired == {e \in DOMAIN mock_escrows : IsExpirable(mock_escrows[e])}
  IN  /\ mock_escrows' = [e \in DOMAIN mock_escrows |->
                            IF e \in expired
                              THEN [mock_escrows[e] EXCEPT !.status = EXPIRED]
                              ELSE mock_escrows[e]]
      /\ ret' = [op |-> "expire_old_locks", count |-> Cardinality(expired)]
      /\ UNCHANGED <<appVars, pending_approvals,
                     policy, wallet_mode, vault, authVars, mock_releases,
                     mock_balance_usdc, chain, now, nextId, pending, consumed_ok>>

\* X402Authorizer.release_escrow
ReleaseEscrow(auth_token, vendor_id, ach_confirmation) ==
  /\ IF auth_token \notin DOMAIN token_to_escrow
       THEN /\ ret' = [op |-> "release_escrow", auth_token |-> auth_token,
                       success |-> FALSE, error |-> "No escrow found for auth token"]
            /\ UNCHANGED escrowVars
       ELSE LET r == ReleaseToVendorResult(token_to_escrow[auth_token],
                                           vendor_id, None, ach_confirmation)
            IN  /\ mock_escrows' = r.escrows
                /\ mock_releases' = r.releases
                /\ ret' = IF r.release # Nil
                            THEN [op |-> "release_escrow", auth_token |-> auth_token,
                                  success |-> TRUE, error |-> None]
                            ELSE [op |-> "release_escrow", auth_token |-> auth_token,
                                  success |-> FALSE, error |-> "Failed to release escrow"]
  /\ UNCHANGED <<appVars, pending_approvals,
                 policy, wallet_mode, vault,
                 authVars, mock_balance_usdc, chain, now,
                 nextId, pending, consumed_ok>>

\* a refund_escrow that withdraws the token of the escrow it refunds
RefundEscrowRevokes(auth_token, reason) ==
  /\ IF auth_token \notin DOMAIN token_to_escrow
       THEN /\ ret' = [op |-> "refund_escrow", auth_token |-> auth_token,
                       success |-> FALSE, error |-> "No escrow found for auth token"]
            /\ UNCHANGED <<mock_escrows, auth_tokens>>
       ELSE LET r == RefundToBusinessResult(token_to_escrow[auth_token], reason)
            IN  /\ mock_escrows' = r.escrows
                /\ auth_tokens' = IF r.success THEN Remove(auth_tokens, auth_token)
                                   ELSE auth_tokens
                /\ ret' = [op |-> "refund_escrow", auth_token |-> auth_token,
                           success |-> r.success,
                           error |-> IF r.success THEN None ELSE "Refund failed"]
  /\ UNCHANGED <<appVars, pending_approvals,
                 policy, wallet_mode, vault, authorizations, daily_spending,
                 weekly_spending, token_to_escrow, mock_releases,
                 mock_balance_usdc, chain, now, nextId, pending, consumed_ok>>

\* X402Authorizer.refund_escrow
RefundEscrow(auth_token, reason) ==
  /\ IF auth_token \notin DOMAIN token_to_escrow
       THEN /\ ret' = [op |-> "refund_escrow", auth_token |-> auth_token,
                       success |-> FALSE, error |-> "No escrow found for auth token"]
            /\ UNCHANGED mock_escrows
       ELSE LET r == RefundToBusinessResult(token_to_escrow[auth_token], reason)
            IN  /\ mock_escrows' = r.escrows
                /\ ret' = [op |-> "refund_escrow", auth_token |-> auth_token,
                           success |-> r.success,
                           error |-> IF r.success THEN None ELSE "Refund failed"]
  /\ UNCHANGED <<appVars, pending_approvals,
                 policy, wallet_mode, vault, authVars, mock_releases,
                 mock_balance_usdc, chain, now, nextId, pending, consumed_ok>>

\* the clock: datetime.utcnow() moves on by a day
DayTick ==
  /\ now < MaxDay
  /\ now' = now + 1
  /\ ret' = [op |-> "tick"]
  /\ UNCHANGED <<appVars, pending_approvals,
                 policy, wallet_mode, vault,
                 authVars, escrowVars, mock_balance_usdc, chain,
                 nextId, pending, consumed_ok>>

\* ------------------------------------------------------- specifications
DoAuthorize == \E req \in Requests : Authorize(req)
DoConsume == \E t \in Tokens : ConsumeAuthToken(t)
DoCreateLock ==
  \E i \in LockInvoices, b \in CallerIds, a \in LockAmounts, v \in Vendors :
     CreateLock(i, b, a, v)
DoReleaseToVendor ==
  \E e \in EscrowIds, v \in Vendors, a \in AchConfirmations :
     ReleaseToVendor(e, v, None, a)
DoRefundToBusiness == \E e \in EscrowIds, r \in RefundReasons : RefundToBusiness(e, r)
DoReleaseEscrow ==
  \E t \in Tokens, v \in Vendors, a \in AchConfirmations : ReleaseEscrow(t, v, a)
DoRefundEscrow == \E t \in Tokens, r \in RefundReasons : RefundEscrow(t, r)

\* the whole layer, every operation run to completion before the next one
\* starts; the properties below are checked on the sub-systems that follow
Next ==
  \/ DoAuthorize
  \/ DoCreateLock
  \/ DoConsume
  \/ DoReleaseToVendor
  \/ DoRefundToBusiness
  \/ DoReleaseEscrow
  \/ DoRefundEscrow
  \/ ExpireOldLocks
  \/ Reset
  \/ DayTick

Spec == Init /\ [][Next]_vars

\* ------------------------------------------ authorize with suspension
\* authorize up to the awaited wallet.transfer_to_escrow: the request id is
\* drawn, the policies are checked against the state of this moment, and the
\* call either returns REJECTED or is suspended inside the transfer
AuthorizeBegin(p, req) ==
  /\ pending[p].pc = "idle"
  /\ nextId < MaxAuth
  /\ LET request_id == RequestIdOf(req, p)
         pr == CheckPolicies(req)
     IN  IF ~pr.allowed
           THEN /\ AuthorizeReject(req, request_id, pr)
                /\ pending' = [pending EXCEPT ![p] =
                                 [pc |-> "done", req |-> req, result |-> ret']]
           ELSE /\ pending' = [pending EXCEPT ![p] =
                                 [pc |-> "awaiting", req |-> req,
                                  request_id |-> request_id, pr |-> pr]]
                /\ ret' = [op |-> "authorize_suspended", proc |-> p]
                /\ UNCHANGED <<authVars, escrowVars, mock_balance_usdc, chain, nextId>>
  /\ UNCHANGED <<appVars, pending_approvals,
                 policy, wallet_mode, vault, now, consumed_ok>>

\* authorize from the return of the awaited transfer to its own return
AuthorizeResume(p) ==
  /\ pending[p].pc = "awaiting"
  /\ \E out \in TransferOutcomes(pending[p].req.amount_usd) :
        AuthorizeFinish(pending[p].req, pending[p].request_id, pending[p].pr, out)
  /\ pending' = [pending EXCEPT ![p] =
                   [pc |-> "done", req |-> pending[p].req, result |-> ret']]
  /\ UNCHANGED <<appVars, pending_approvals,
                 policy, wallet_mode, vault, now, consumed_ok>>

DoAuthorizeBegin == \E p \in Procs, req \in Requests : AuthorizeBegin(p, req)
DoAuthorizeResume == \E p \in Procs : AuthorizeResume(p)

\* the authorizer alone: locks are created and then left as they are
NextAuth ==
  \/ DoAuthorize
  \/ DoConsume
  \/ DayTick

SpecAuth == Init /\ [][NextAuth]_vars

\* authorize calls alone, over the days
NextAuthorize ==
  \/ DoAuthorize
  \/ DayTick

SpecAuthorize == Init /\ [][NextAuthorize]_vars

\* the daily-limit scenario
DoAuthorizeScenario == \E req \in ScenarioRequests : Authorize(req)

NextScenario ==
  \/ DoAuthorizeScenario
  \/ DayTick

SpecScenario == InitScenario /\ [][NextScenario]_vars

\* the operations that write the authorizer's own tables, on requests of any
\* amount
DoAuthorizeSigned == \E req \in SignedRequests : Authorize(req)

NextTotals ==
  \/ DoAuthorizeSigned
  \/ DoConsume
  \/ Reset
  \/ DayTick

SpecTotals == Init /\ [][NextTotals]_vars

\* tokens are minted, looked at and redeemed
DoVerify == \E t \in Tokens, i \in Invoices : VerifyAuthToken(t, i)

NextVerify ==
  \/ DoAuthorize
  \/ DoVerify
  \/ DoConsume

SpecVerify == Init /\ [][NextVerify]_vars

\* the EscrowManager alone: the life cycle of the locks created on it
NextEscrow ==
  \/ DoCreateLock
  \/ DoReleaseToVendor
  \/ DoRefundToBusiness
  \/ ExpireOldLocks
  \/ DayTick

SpecEscrow == Init /\ [][NextEscrow]_vars

\* NProcs callers, one authorize call each, interleaved at the awaited
\* transfer; tokens are redeemed meanwhile
NextConc ==
  \/ DoAuthorizeBegin
  \/ DoAuthorizeResume
  \/ DoConsume

SpecConc == Init /\ [][NextConc]_vars

\* ------------------------------- release and refund, read and write apart
\* release_to_vendor and refund_to_business each fetch the lock (get_lock),
\* test the status of what they fetched, and later store the lock they hold
\* (self._mock_escrows[escrow_id] = lock, or update_one with no status
\* filter).  Between the fetch and the store another caller may run.

\* release_to_vendor up to the status test on the lock it fetched
ReleaseRead(p, escrow_id, vendor_id, vendor_wallet, ach_confirmation) ==
  /\ pending[p].pc = "idle"
  /\ LET lock == Get(mock_escrows, escrow_id, Nil)
     IN  IF lock = Nil \/ (lock # Nil /\ lock.status # LOCKED)
           THEN /\ ret' = [op |-> "release_to_vendor", escrow_id |-> escrow_id,
                           release |-> Nil]
                /\ pending' = [pending EXCEPT ![p] =
                                 [pc |-> "done", call |-> "release",
                                  escrow_id |-> escrow_id, success |-> FALSE]]
           ELSE /\ ret' = [op |-> "release_read", proc |-> p]
                /\ pending' = [pending EXCEPT ![p] =
                                 [pc |-> "releasing", escrow_id |-> escrow_id,
                                  lock |-> lock, vendor_id |-> vendor_id,
                                  vendor_wallet |-> vendor_wallet,
                                  ach_confirmation |-> ach_confirmation]]
  /\ UNCHANGED <<appVars, pending_approvals,
                 policy, wallet_mode, vault,
                 authVars, escrowVars, mock_balance_usdc, chain,
                 now, nextId, consumed_ok>>

\* release_to_vendor from the EscrowRelease it builds to its return: the
\* lock it fetched is stored as RELEASED and the record is appended
ReleaseWrite(p) ==
  /\ pending[p].pc = "releasing"
  /\ LET c == pending[p]
         k == Len(mock_releases) + 1
         release_tx == <<"release_tx", k>>
         release == [release_id |-> <<"release", k>>, escrow_id |-> c.escrow_id,
                     invoice_id |-> c.lock.invoice_id, vendor_id |-> c.vendor_id,
                     vendor_wallet |-> c.vendor_wallet,
                     vendor_bank_confirmed |-> (c.ach_confirmation # None),
                     amount_usdc |-> c.lock.amount_usdc, tx_hash |-> release_tx,
                     ach_confirmation |-> c.ach_confirmation]
         updated == [c.lock EXCEPT !.status = RELEASED,
                                   !.release_tx_hash = release_tx,
                                   !.release_recipient =
                                      IF c.vendor_wallet # None
                                        THEN <<"wallet", c.vendor_wallet>>
                                        ELSE <<"ACH", c.ach_confirmation>>]
     IN  /\ mock_escrows' = Put(mock_escrows, c.escrow_id, updated)
         /\ mock_releases' = Append(mock_releases, release)
         /\ ret' = [op |-> "release_to_vendor", escrow_id |-> c.escrow_id,
                    release |-> Some(release)]
         /\ pending' = [pending EXCEPT ![p] =
                          [pc |-> "done", call |-> "release",
                           escrow_id |-> c.escrow_id, success |-> TRUE]]
  /\ UNCHANGED <<appVars, pending_approvals,
                 policy, wallet_mode, vault,
                 authVars, mock_balance_usdc, chain, now, nextId,
                 consumed_ok>>

\* refund_to_business up to the status test on the lock it fetched
RefundRead(p, escrow_id, reason) ==
  /\ pending[p].pc = "idle"
  /\ LET lock == Get(mock_escrows, escrow_id, Nil)
     IN  IF lock = Nil \/ (lock # Nil /\ lock.status # LOCKED)
           THEN /\ ret' = [op |-> "refund_to_business", escrow_id |-> escrow_id,
                           success |-> FALSE]
                /\ pending' = [pending EXCEPT ![p] =
                                 [pc |-> "done", call |-> "refund",
                                  escrow_id |-> escrow_id, success |-> FALSE]]
           ELSE /\ ret' = [op |-> "refund_read", proc |-> p]
                /\ pending' = [pending EXCEPT ![p] =
                                 [pc |-> "refunding", escrow_id |-> escrow_id,
                                  lock |-> lock, reason |-> reason]]
  /\ UNCHANGED <<appVars, pending_approvals,
                 policy, wallet_mode, vault,
                 authVars, escrowVars, mock_balance_usdc, chain,
                 now, nextId, consumed_ok>>

\* refund_to_business from the status assignment to its return
RefundWrite(p) ==
  /\ pending[p].pc = "refunding"
  /\ LET c == pending[p]
         updated == [c.lock EXCEPT !.status = REFUNDED,
                                   !.refund_reason = c.reason]
     IN  /\ mock_escrows' = Put(mock_escrows, c.escrow_id, updated)
         /\ ret' = [op |-> "refund_to_business", escrow_id |-> c.escrow_id,
                    success |-> TRUE]
         /\ pending' = [pending EXCEPT ![p] =
                          [pc |-> "done", call |-> "refund",
                           escrow_id |-> c.escrow_id, success |-> TRUE]]
  /\ UNCHANGED <<appVars, pending_approvals,
                 policy, wallet_mode, vault, authVars, mock_releases,
                 mock_balance_usdc, chain, now, nextId, consumed_ok>>

DoReleaseRead ==
  \E p \in Procs, e \in EscrowIds, v \in Vendors, a \in AchConfirmations :
     ReleaseRead(p, e, v, None, a)
DoReleaseWrite == \E p \in Procs : ReleaseWrite(p)
DoRefundRead ==
  \E p \in Procs, e \in EscrowIds, r \in RefundReasons : RefundRead(p, e, r)
DoRefundWrite == \E p \in Procs : RefundWrite(p)

\* NProcs callers of the EscrowManager, one release or refund each, on the
\* locks created on it
NextEscrowConc ==
  \/ DoCreateLock
  \/ DoReleaseRead
  \/ DoReleaseWrite
  \/ DoRefundRead
  \/ DoRefundWrite

SpecEscrowConc == Init /\ [][NextEscrowConc]_vars

\* ------------------------------------------------------- CredentialVault
\* Fernet: a ciphertext opens under the key that made it and under no other
FernetEncrypt(key, plain) == <<"fernet", key, plain>>
FernetDecrypt(key, cipher) ==
  IF cipher[2] = key THEN [ok |-> TRUE, plain |-> cipher[3]]
  ELSE [ok |-> FALSE, plain |-> Nil]

\* number[-4:]
Last4(number) ==
  IF Len(number) <= 4 THEN number
  ELSE SubSeq(number, Len(number) - 3, Len(number))

\* the credentials the mock vault hands out: ACH_ROUTING_NUMBER,
\* ACH_ACCOUNT_NUMBER and ACH_ACCOUNT_NAME, or their defaults
DefaultRouting == <<0, 2, 1, 0, 0, 0, 0, 2, 1>>
DefaultAccount == <<1, 2, 3, 4, 5, 6, 7, 8, 9, 0>>
DefaultName == "Haggl Demo Business"

\* CredentialVault._log_access: the mock vault writes the entry to the
\* application log, the vault on MongoDB inserts it into credential_access_log
LogAccess(v, business_id, action, details) ==
  [v EXCEPT !.access_log =
     Append(@, [business_id |-> business_id, action |-> action,
                details |-> details,
                sink |-> IF v.mock_mode THEN "logger" ELSE "collection"])]

\* CredentialVault._verify_authorization
VerifyAuthorization(auth_token, invoice_id) ==
  Get(auth_tokens, auth_token, None) = invoice_id

\* the entry store_credentials keeps for an owner in the mock vault
MockCredential(credential_id, routing_number, account_number, account_name, created_at) ==
  [credential_id |-> credential_id,
   routing_last4 |-> Last4(routing_number),
   account_last4 |-> Last4(account_number),
   account_name |-> account_name,
   bank_name |-> None,
   created_at |-> created_at]

\* the document store_credentials upserts into the credentials collection
CredentialDoc(key, business_id, credential_id, routing_number, account_number, account_name, created_at) ==
  [business_id |-> business_id,
   credential_id |-> credential_id,
   routing_encrypted |-> FernetEncrypt(key, routing_number),
   account_encrypted |-> FernetEncrypt(key, account_number),
   name_encrypted |-> FernetEncrypt(key, account_name),
   routing_last4 |-> Last4(routing_number),
   account_last4 |-> Last4(account_number),
   bank_name |-> None,
   created_at |-> created_at]

\* CredentialVault.store_credentials
StoreCredentials(business_id, routing_number, account_number, account_name) ==
  /\ vault.stores < MaxStores
  /\ Len(vault.access_log) < MaxLog
  /\ LET credential_id == <<"cred", vault.stores + 1>>
         counted == [vault EXCEPT !.stores = @ + 1]
     IN  /\ vault' =
              IF vault.mock_mode
                THEN [counted EXCEPT !.mock_credentials =
                        Put(@, business_id,
                            MockCredential(credential_id, routing_number,
                                           account_number, account_name, now))]
                ELSE LogAccess(
                       [counted EXCEPT !.credentials =
                          Put(@, business_id,
                              CredentialDoc(vault.key, business_id, credential_id,
                                            routing_number, account_number,
                                            account_name, now))],
                       business_id, "store", "Credentials stored")
         /\ ret' = [op |-> "store_credentials", status |-> "stored",
                    credential_id |-> credential_id]
  /\ UNCHANGED <<appVars, pending_approvals,
                 policy, wallet_mode, authVars, escrowVars, mock_balance_usdc,
                 chain, now, nextId, pending, consumed_ok>>

\* what get_credentials_for_injection returns and does on the vault v once
\* the token has been verified: `did` lists the steps taken after the
\* verification
InjectionResult(v, business_id, invoice_id) ==
  IF v.mock_mode
    THEN [vault |-> v, did |-> {"mock_lookup"},
          result |-> Some([routing |-> DefaultRouting, account |-> DefaultAccount,
                           name |-> IF business_id \in DOMAIN v.mock_credentials
                                      THEN v.mock_credentials[business_id].account_name
                                      ELSE DefaultName])]
  ELSE IF business_id \notin DOMAIN v.credentials
    THEN [vault |-> v, did |-> {"lookup"}, result |-> Nil]
  ELSE
    LET doc == v.credentials[business_id]
        routing == FernetDecrypt(v.key, doc.routing_encrypted)
        account == FernetDecrypt(v.key, doc.account_encrypted)
        name == FernetDecrypt(v.key, doc.name_encrypted)
    IN  IF routing.ok /\ account.ok /\ name.ok
          THEN [vault |-> LogAccess(v, business_id, "decrypt", invoice_id),
                did |-> {"lookup", "decrypt"},
                result |-> Some([routing |-> routing.plain, account |-> account.plain,
                                 name |-> name.plain])]
          ELSE [vault |-> v, did |-> {"lookup", "decrypt"}, result |-> Nil]

\* a get_credentials_for_injection that fetches and decrypts whatever the
\* verification said
GetCredentialsUnverified(business_id, auth_token, invoice_id) ==
  /\ Len(vault.access_log) < MaxLog
  /\ LET r == InjectionResult(vault, business_id, invoice_id)
     IN  /\ vault' = r.vault
         /\ ret' = [op |-> "get_credentials_for_injection",
                    business_id |-> business_id, auth_token |-> auth_token,
                    invoice_id |-> invoice_id, result |-> r.result, did |-> r.did]
  /\ UNCHANGED <<appVars, pending_approvals,
                 policy, wallet_mode, authVars, escrowVars, mock_balance_usdc,
                 chain, now, nextId, pending, consumed_ok>>

\* a get_credentials_for_injection that fetches the record before it tests
\* the token and reports the refusal only for a record that exists
GetCredentialsCallLooksUpFirst(v, business_id, auth_token, invoice_id) ==
  IF VerifyAuthorization(auth_token, invoice_id)
    THEN InjectionResult(v, business_id, invoice_id)
  ELSE IF business_id \in DOMAIN v.credentials \cup DOMAIN v.mock_credentials
    THEN [vault |-> LogAccess(v, business_id, "denied", invoice_id),
          did |-> {"lookup"}, result |-> <<"unauthorized">>]
  ELSE [vault |-> v, did |-> {"lookup"}, result |-> Nil]

\* the body of get_credentials_for_injection on the vault v: the vault it
\* leaves, the steps it took and the value it returns
GetCredentialsCall(v, business_id, auth_token, invoice_id) ==
  IF ~VerifyAuthorization(auth_token, invoice_id)
    THEN [vault |-> LogAccess(v, business_id, "denied", invoice_id),
          did |-> {}, result |-> Nil]
    ELSE InjectionResult(v, business_id, invoice_id)

\* CredentialVault.get_credentials_for_injection
GetCredentialsForInjection(business_id, auth_token, invoice_id) ==
  /\ Len(vault.access_log) < MaxLog
  /\ LET r == GetCredentialsCall(vault, business_id, auth_token, invoice_id)
     IN  /\ vault' = r.vault
         /\ ret' = [op |-> "get_credentials_for_injection",
                    business_id |-> business_id, auth_token |-> auth_token,
                    invoice_id |-> invoice_id, result |-> r.result,
                    did |-> r.did]
  /\ UNCHANGED <<appVars, pending_approvals,
                 policy, wallet_mode, authVars, escrowVars, mock_balance_usdc,
                 chain, now, nextId, pending, consumed_ok>>

\* CredentialVault.get_credential_info
GetCredentialInfo(business_id) ==
  /\ ret' = [op |-> "get_credential_info", business_id |-> business_id,
             result |->
               IF vault.mock_mode
                 THEN IF business_id \in DOMAIN vault.mock_credentials
                        THEN LET stored == vault.mock_credentials[business_id]
                             IN  Some([credential_id |-> stored.credential_id,
                                       routing_last4 |-> stored.routing_last4,
                                       account_last4 |-> stored.account_last4,
                                       account_name |-> stored.account_name,
                                       bank_name |-> stored.bank_name])
                        ELSE Nil
               ELSE IF business_id \in DOMAIN vault.credentials
                 THEN LET doc == vault.credentials[business_id]
                      IN  Some([credential_id |-> doc.credential_id,
                                routing_last4 |-> doc.routing_last4,
                                account_last4 |-> doc.account_last4,
                                bank_name |-> doc.bank_name,
                                created_at |-> doc.created_at])
               ELSE Nil]
  /\ UNCHANGED <<appVars, pending_approvals,
                 policy, wallet_mode, vault, authVars, escrowVars,
                 mock_balance_usdc, chain, now, nextId, pending, consumed_ok>>

DoStoreCredentials ==
  \E b \in Owners, r \in RoutingNumbers, a \in AccountNumbers, n \in AccountNames :
     StoreCredentials(b, r, a, n)
DoGetCredentials ==
  \E b \in Owners, t \in Tokens, i \in Invoices :
     GetCredentialsForInjection(b, t, i)
DoGetCredentialInfo == \E b \in Owners : GetCredentialInfo(b)

\* the requests whose tokens are presented to the vault
VaultRequests ==
  [invoice_id : Invoices, vendor_id : Vendors, amount_usd : {1},
   budget_total : BudgetTotals, budget_remaining : {3}, request_id : {Nil}]
DoAuthorizeVault == \E req \in VaultRequests : Authorize(req)

\* the vault next to the authorizer whose tokens open it
NextVault ==
  \/ DoAuthorizeVault
  \/ DoConsume
  \/ DoStoreCredentials
  \/ DoGetCredentials
  \/ DoGetCredentialInfo

SpecVault == InitVault /\ [][NextVault]_vars

\* the process is started again with the vault on MongoDB: the credentials,
\* the audit trail and the escrow tables are kept by the database, the
\* authorizer and the mock wallet start empty, and the vault's Fernet key is
\* the one of the new process (generated at start when VAULT_MASTER_KEY is
\* unset, derived from the master key and salt the process is given when set)
RestartVault ==
  /\ ~vault.mock_mode
  /\ vault.key <= MaxRestarts
  /\ vault' = [vault EXCEPT !.key = @ + 1, !.mock_credentials = EmptyMap]
  /\ authorizations' = EmptyMap
  /\ daily_spending' = EmptyMap
  /\ weekly_spending' = 0
  /\ auth_tokens' = EmptyMap
  /\ token_to_escrow' = EmptyMap
  /\ mock_balance_usdc' = InitialMockBalance
  /\ pending' = [p \in Procs |-> Idle]
  /\ ret' = [op |-> "restart"]
  /\ UNCHANGED <<appVars, pending_approvals,
                 policy, wallet_mode, escrowVars, chain, now, nextId, consumed_ok>>

\* the vault and its authorizer over restarts of the process
NextVaultRestart ==
  \/ DoAuthorizeVault
  \/ DoStoreCredentials
  \/ DoGetCredentials
  \/ RestartVault

SpecVaultRestart == InitVault /\ [][NextVaultRestart]_vars

\* ------------------------------------- expire_old_locks on MongoDB
\* the filter of the update_many: status LOCKED and expires_at < now, with
\* the now the call read when it started
MatchesSweep(lock, at) == lock.status = LOCKED /\ lock.expires_at < at

\* expire_old_locks reads the clock and hands the update_many to the
\* database; `found` tells whether a document matches as it starts, `done`
\* are the documents it has modified
SweepBegin(p) ==
  /\ pending[p] = Idle
  /\ pending' = [pending EXCEPT ![p] =
       [pc |-> "sweeping", at |-> now,
        found |-> \E e \in DOMAIN mock_escrows : MatchesSweep(mock_escrows[e], now),
        done |-> {}]]
  /\ ret' = [op |-> "expire_begin"]
  /\ UNCHANGED <<appVars, pending_approvals,
                 policy, wallet_mode, vault, authVars, escrowVars,
                 mock_balance_usdc, chain, now, nextId, consumed_ok>>

\* an update_many that sets EXPIRED on every document past its expiry,
\* whatever the document's status is by now
SweepDocFromSnapshot(p) ==
  /\ pending[p].pc = "sweeping"
  /\ \E e \in DOMAIN mock_escrows \ pending[p].done :
        /\ mock_escrows[e].expires_at < pending[p].at
        /\ mock_escrows' = [mock_escrows EXCEPT ![e].status = EXPIRED]
        /\ pending' = [pending EXCEPT ![p].done = @ \cup {e}]
  /\ ret' = [op |-> "expire_doc"]
  /\ UNCHANGED <<appVars, pending_approvals,
                 policy, wallet_mode, vault, authVars, mock_releases,
                 mock_balance_usdc, chain, now, nextId, consumed_ok>>

\* the update_many modifies one document: the filter is tested against the
\* document as it is when it is written
SweepDoc(p) ==
  /\ pending[p].pc = "sweeping"
  /\ \E e \in DOMAIN mock_escrows :
        /\ MatchesSweep(mock_escrows[e], pending[p].at)
        /\ mock_escrows' = [mock_escrows EXCEPT ![e].status = EXPIRED]
        /\ pending' = [pending EXCEPT ![p].done = @ \cup {e}]
  /\ ret' = [op |-> "expire_doc"]
  /\ UNCHANGED <<appVars, pending_approvals,
                 policy, wallet_mode, vault, authVars, mock_releases,
                 mock_balance_usdc, chain, now, nextId, consumed_ok>>

\* no document matches any more: the update_many returns and
\* expire_old_locks returns result.modified_count
SweepEnd(p) ==
  /\ pending[p].pc = "sweeping"
  /\ \A e \in DOMAIN mock_escrows : ~MatchesSweep(mock_escrows[e], pending[p].at)
  /\ pending' = [pending EXCEPT ![p] = Idle]
  /\ ret' = [op |-> "expire_old_locks_db", at |-> pending[p].at,
             count |-> Cardinality(pending[p].done)]
  /\ UNCHANGED <<appVars, pending_approvals,
                 policy, wallet_mode, vault, authVars, escrowVars,
                 mock_balance_usdc, chain, now, nextId, consumed_ok>>

\* the locks on the table that is swept: one amount, created on one of two
\* days so that one lock is past its expiry while another is not
LockDays == {0, 1}
DoCreateLockToSweep ==
  /\ now \in LockDays
  /\ \E i \in LockInvoices, b \in CallerIds, v \in Vendors : CreateLock(i, b, 2, v)
\* the two callers whose sweeps run next to each other
Sweepers == {1, 2}
\* release and refund called on the locks of the table
DoReleaseSwept ==
  \E e \in DOMAIN mock_escrows, v \in Vendors, a \in AchConfirmations :
     ReleaseToVendor(e, v, None, a)
DoRefundSwept ==
  \E e \in DOMAIN mock_escrows, r \in RefundReasons : RefundToBusiness(e, r)
DoSweepBegin == \E p \in Sweepers : SweepBegin(p)
DoSweepDoc == \E p \in Sweepers : SweepDoc(p)
DoSweepEnd == \E p \in Sweepers : SweepEnd(p)

\* the lock table under sweeps: the sweep of the in-memory table runs whole,
\* the sweeps of the table on MongoDB run document by document next to each
\* other
NextSweep ==
  \/ DoCreateLockToSweep
  \/ DoReleaseSwept
  \/ DoRefundSwept
  \/ ExpireOldLocks
  \/ DoSweepBegin
  \/ DoSweepDoc
  \/ DoSweepEnd
  \/ DayTick

\* the escrow manager by itself: the authorizer's policy and wallet play no
\* part in its sweeps
InitSweep ==
  /\ policy = ScenarioPolicy
  /\ wallet_mode = "mock"
  /\ vault = NewVault(TRUE)
  /\ Fresh

SpecSweep == InitSweep /\ [][NextSweep]_vars

\* ------------------------------------------- the layer left to itself
\* EscrowManager.get_lock: a read of the table and nothing else
GetLock(escrow_id) ==
  /\ ret' = [op |-> "get_lock",
             lock |-> IF escrow_id \in DOMAIN mock_escrows
                        THEN Some(mock_escrows[escrow_id]) ELSE Nil]
  /\ UNCHANGED <<appVars, pending_approvals,
                 policy, wallet_mode, vault, authVars, escrowVars,
                 mock_balance_usdc, chain, now, nextId, pending, consumed_ok>>

\* EscrowManager.get_lock_by_invoice: the first lock of the invoice in the
\* order the locks were created
GetLockByInvoice(invoice_id) ==
  /\ LET found == {e \in DOMAIN mock_escrows :
                     mock_escrows[e].invoice_id = invoice_id}
     IN  ret' = [op |-> "get_lock_by_invoice",
                 lock |-> IF found = {} THEN Nil
                          ELSE Some(mock_escrows[
                                 CHOOSE e \in found : \A f \in found : e[2] <= f[2]])]
  /\ UNCHANGED <<appVars, pending_approvals,
                 policy, wallet_mode, vault, authVars, escrowVars,
                 mock_balance_usdc, chain, now, nextId, pending, consumed_ok>>

DoGetLock == \E e \in EscrowIds : GetLock(e)
DoGetLockByInvoice == \E i \in Invoices : GetLockByInvoice(i)

\* what runs when no caller releases or refunds: authorizations create
\* locks, callers read them, and the clock moves on; nothing in the
\* repository starts expire_old_locks, neither a timer nor a read
NextUnattended ==
  \/ DoAuthorizeVault
  \/ DoGetLock
  \/ DoGetLockByInvoice
  \/ DayTick

SpecUnattended ==
  InitSweep /\ [][NextUnattended]_vars /\ WF_vars(DayTick)

\* ------------------------------------------------- the order approvals
OrderIds == {"order1", "order2", "order3"}
VendorNames == {"Acme Farms", "Dairy Co"}

\* server.add_pending_approval
AddPendingApproval(order_id, vendor_name) ==
  /\ pending_approvals' =
       Put(pending_approvals, order_id,
           [order_id |-> order_id, vendor_name |-> vendor_name])
  /\ ret' = [op |-> "add_pending_approval"]
  /\ UNCHANGED <<appVars, policy, wallet_mode, vault, authVars, escrowVars,
                 mock_balance_usdc, chain, now, nextId, pending, consumed_ok>>

\* GET /orders/pending
GetPendingApprovals ==
  /\ ret' = [op |-> "get_pending_approvals", status_code |-> 200,
             orders |-> DOMAIN pending_approvals,
             count |-> Cardinality(DOMAIN pending_approvals)]
  /\ UNCHANGED <<appVars, pending_approvals, policy, wallet_mode, vault, authVars,
                 escrowVars, mock_balance_usdc, chain, now, nextId, pending,
                 consumed_ok>>

\* POST /orders/approve: the response and the vendor named in the
\* order-approved event it emits
ApproveOrder(order_id) ==
  /\ IF order_id \in DOMAIN pending_approvals
       THEN /\ pending_approvals' = Remove(pending_approvals, order_id)
            /\ ret' = [op |-> "approve_order", order_id |-> order_id,
                       status_code |-> 200, status |-> "approved",
                       event_vendor |-> pending_approvals[order_id].vendor_name]
       ELSE /\ pending_approvals' = pending_approvals
            /\ ret' = [op |-> "approve_order", order_id |-> order_id,
                       status_code |-> 200, status |-> "approved",
                       event_vendor |-> "Demo Vendor"]
  /\ UNCHANGED <<appVars, policy, wallet_mode, vault, authVars, escrowVars,
                 mock_balance_usdc, chain, now, nextId, pending, consumed_ok>>

DoAddPendingApproval ==
  \E o \in OrderIds, v \in VendorNames : AddPendingApproval(o, v)
DoApproveOrder == \E o \in OrderIds : ApproveOrder(o)

NextOrders ==
  \/ DoAddPendingApproval
  \/ GetPendingApprovals
  \/ DoApproveOrder

SpecOrders == InitSweep /\ [][NextOrders]_vars

\* ------------------------------------------------ the web3 wallet's chain
\* a transaction left with the network by a timed-out transfer is mined: its
\* amount arrives at the escrow address
ChainConfirms ==
  /\ \E i \in 1..Len(chain.mempool) :
        chain' = [chain EXCEPT
                    !.escrow_usdc = @ + chain.mempool[i],
                    !.mempool = SubSeq(@, 1, i - 1) \o SubSeq(@, i + 1, Len(@))]
  /\ ret' = [op |-> "chain_confirms"]
  /\ UNCHANGED <<appVars, pending_approvals,
                 policy, wallet_mode, vault,
                 authVars, escrowVars, mock_balance_usdc,
                 now, nextId, pending, consumed_ok>>

\* such a transaction is dropped by the network and never mined
ChainDrops ==
  /\ \E i \in 1..Len(chain.mempool) :
        chain' = [chain EXCEPT
                    !.mempool = SubSeq(@, 1, i - 1) \o SubSeq(@, i + 1, Len(@))]
  /\ ret' = [op |-> "chain_drops"]
  /\ UNCHANGED <<appVars, pending_approvals,
                 policy, wallet_mode, vault,
                 authVars, escrowVars, mock_balance_usdc,
                 now, nextId, pending, consumed_ok>>

\* the authorizer on a web3 wallet, and the network behind the wallet
NextWeb3 ==
  \/ DoAuthorize
  \/ ChainConfirms
  \/ ChainDrops

SpecWeb3 == InitWeb3 /\ [][NextWeb3]_vars

\* ------------------------------------------------ tokens and settlement
\* the authorizer from the mint of a token to the settlement of its escrow:
\* the token is redeemed, the escrow behind it released or refunded
SettleRequests ==
  [invoice_id : Invoices, vendor_id : Vendors, amount_usd : {1, 2},
   budget_total : BudgetTotals, budget_remaining : {3},
   request_id : CallerIds \cup {Nil}]
DoAuthorizeSettle == \E req \in SettleRequests : Authorize(req)

NextSettle ==
  \/ DoAuthorizeSettle
  \/ DoConsume
  \/ DoReleaseEscrow
  \/ DoRefundEscrow

SpecSettle == Init /\ [][NextSettle]_vars

\* the same on the mock wallet as the days pass: tokens are looked at and
\* redeemed while their escrows are released, refunded or swept
ExpiryRequests ==
  [invoice_id : Invoices, vendor_id : Vendors, amount_usd : {1, 2},
   budget_total : BudgetTotals, budget_remaining : {3}, request_id : {Nil}]
DoAuthorizeExpiry == \E req \in ExpiryRequests : Authorize(req)

InitExpiry ==
  /\ policy \in Policies
  /\ wallet_mode = "mock"
  /\ vault = NewVault(TRUE)
  /\ Fresh

NextExpiry ==
  \/ DoAuthorizeExpiry
  \/ DoVerify
  \/ DoConsume
  \/ DoReleaseEscrow
  \/ DoRefundEscrow
  \/ ExpireOldLocks
  \/ DayTick

SpecExpiry == InitExpiry /\ [][NextExpiry]_vars

\* authorize on any day, next to the redemption of tokens and the refund and
\* the sweep of their escrows
DoAuthorizeAnyDay == \E req \in ExpiryRequests : AuthorizeCall(req)

NextDuplicate ==
  \/ DoAuthorizeAnyDay
  \/ DoConsume
  \/ DoRefundEscrow
  \/ ExpireOldLocks
  \/ DayTick

SpecDuplicate == InitExpiry /\ [][NextDuplicate]_vars

\* ----------------------------------------------------- POST /x402/pay
\* what PaymentExecutor.execute_payment can come back with
PaymentStatuses == {"succeeded", "processing", "failed"}

\* the tx_hash of an authorization cached for the invoice, None without one
TxHashesOf(invoice_id) ==
  IF \E r \in DOMAIN authorizations : authorizations[r].invoice_id = invoice_id
    THEN {authorizations[r].tx_hash :
            r \in {x \in DOMAIN authorizations :
                     authorizations[x].invoice_id = invoice_id}}
    ELSE {Nil}

\* a pay handler that compares the invoice ids before it redeems the token
ExecutePaymentChecksFirst(auth_token, invoice_id) ==
  LET stored == Get(auth_tokens, auth_token, None)
  IN  /\ IF stored = None
           THEN /\ ret' = [op |-> "pay", auth_token |-> auth_token,
                           invoice_id |-> invoice_id, status_code |-> 401,
                           payment |-> Nil]
                /\ UNCHANGED <<auth_tokens, consumed_ok, payment_history>>
         ELSE IF stored # invoice_id
           THEN /\ ret' = [op |-> "pay", auth_token |-> auth_token,
                           invoice_id |-> invoice_id, status_code |-> 400,
                           payment |-> Nil]
                /\ UNCHANGED <<auth_tokens, consumed_ok, payment_history>>
           ELSE \E status \in PaymentStatuses, tx \in TxHashesOf(stored) :
                  LET result == [invoice_id |-> invoice_id, status |-> status,
                                 x402_tx_hash |-> tx]
                  IN  /\ auth_tokens' = Remove(auth_tokens, auth_token)
                      /\ consumed_ok' = Put(consumed_ok, auth_token, 1)
                      /\ payment_history' = Put(payment_history, invoice_id, result)
                      /\ ret' = [op |-> "pay", auth_token |-> auth_token,
                                 invoice_id |-> invoice_id, status_code |-> 200,
                                 payment |-> Some(result)]
      /\ UNCHANGED <<agent, vapi_calls, pending_approvals,
                     policy, wallet_mode, vault, authorizations, daily_spending,
                     weekly_spending, token_to_escrow, escrowVars,
                     mock_balance_usdc, chain, now, nextId, pending>>

\* execute_payment, the handler of POST /x402/pay of both servers: the token
\* is redeemed first, then the invoice ids are compared, then the executor
\* runs and files its result under the invoice id
ExecutePayment(auth_token, invoice_id) ==
  LET stored == Get(auth_tokens, auth_token, None)
  IN  /\ auth_tokens' = Remove(auth_tokens, auth_token)
      /\ consumed_ok' = IF stored # None
                          THEN Put(consumed_ok, auth_token,
                                   IF Get(consumed_ok, auth_token, 0) < 2
                                     THEN Get(consumed_ok, auth_token, 0) + 1 ELSE 2)
                          ELSE consumed_ok
      /\ IF stored = None
           THEN /\ ret' = [op |-> "pay", auth_token |-> auth_token,
                           invoice_id |-> invoice_id, status_code |-> 401,
                           payment |-> Nil]
                /\ UNCHANGED payment_history
         ELSE IF stored # invoice_id
           THEN /\ ret' = [op |-> "pay", auth_token |-> auth_token,
                           invoice_id |-> invoice_id, status_code |-> 400,
                           payment |-> Nil]
                /\ UNCHANGED payment_history
           ELSE \E status \in PaymentStatuses, tx \in TxHashesOf(stored) :
                  LET result == [invoice_id |-> invoice_id, status |-> status,
                                 x402_tx_hash |-> tx]
                  IN  /\ payment_history' = Put(payment_history, invoice_id, result)
                      /\ ret' = [op |-> "pay", auth_token |-> auth_token,
                                 invoice_id |-> invoice_id, status_code |-> 200,
                                 payment |-> Some(result)]
      /\ UNCHANGED <<agent, vapi_calls, pending_approvals,
                     policy, wallet_mode, vault, authorizations, daily_spending,
                     weekly_spending, token_to_escrow, escrowVars,
                     mock_balance_usdc, chain, now, nextId, pending>>

DoExecutePayment == \E t \in Tokens, i \in Invoices : ExecutePayment(t, i)

\* the payment server: authorizations are granted and paid
NextPay ==
  \/ DoAuthorizeVault
  \/ DoExecutePayment

SpecPay == InitExpiry /\ [][NextPay]_vars

\* ------------------------------------------------------- CallingAgent
\* One CallingAgent object (get_agent) serves every request.  process_order
\* is a coroutine with two awaits, call_vendor and wait_for_call_completion;
\* between them other process_order calls run on the same object.
CallErrors == {"Vapi API error"}
WaitErrors == {"Call timed out"}
NotConfirmed == "Order was not confirmed by vendor"

\* CallingAgent._build_response
BuildResponse(self, order_id) ==
  [order_id |-> order_id, status |-> self.state, call_id |-> self.call_id,
   outcome |-> self.outcome, error |-> self.error]

\* what a process_order call hands back
ProcessOrderRet(p, response, cached) ==
  [op |-> "process_order", proc |-> p, cached |-> cached,
   order_id |-> response.order_id, status |-> response.status,
   call_id |-> response.call_id, outcome |-> response.outcome,
   error |-> response.error]

\* process_order up to the awaited call_vendor: the cached result of an order
\* in the history, or the reset of the agent and the start of the call
ProcessOrderBegin(p, order_id) ==
  /\ pending[p].pc = "idle"
  /\ IF order_id \in DOMAIN agent.call_history
       THEN LET cached == agent.call_history[order_id]
                response == [order_id |-> order_id, status |-> cached.status,
                             call_id |-> cached.call_id,
                             outcome |-> cached.outcome, error |-> cached.error]
            IN  /\ ret' = ProcessOrderRet(p, response, TRUE)
                /\ pending' = [pending EXCEPT ![p] =
                                 [pc |-> "done", order_id |-> order_id]]
                /\ UNCHANGED agent
       ELSE /\ agent' = [agent EXCEPT !.state = CALL_IN_PROGRESS,
                                      !.call_id = Nil, !.outcome = Nil,
                                      !.error = None]
            /\ pending' = [pending EXCEPT ![p] =
                             [pc |-> "calling", order_id |-> order_id]]
            /\ ret' = [op |-> "process_order_suspended", proc |-> p]
  /\ UNCHANGED <<vapi_calls, payment_history, pending_approvals, policy,
                 wallet_mode, vault, authVars, escrowVars, mock_balance_usdc,
                 chain, now, nextId, consumed_ok>>

\* process_order from the return of call_vendor to the awaited
\* wait_for_call_completion: the call was placed, or Vapi refused it
ProcessOrderCalled(p) ==
  /\ pending[p].pc = "calling"
  /\ \/ \E e \in CallErrors :
          /\ agent' = [agent EXCEPT !.state = FAILED, !.error = e]
          /\ ret' = ProcessOrderRet(p, BuildResponse(agent', pending[p].order_id), FALSE)
          /\ pending' = [pending EXCEPT ![p] =
                           [pc |-> "done", order_id |-> pending[p].order_id]]
          /\ UNCHANGED vapi_calls
     \/ LET call_id == <<"call", Len(vapi_calls) + 1>>
        IN  /\ vapi_calls' = Append(vapi_calls,
                                    [call_id |-> call_id,
                                     order_id |-> pending[p].order_id])
            /\ agent' = [agent EXCEPT !.call_id = call_id]
            /\ pending' = [pending EXCEPT ![p] =
                             [pc |-> "waiting", order_id |-> pending[p].order_id,
                              call_id |-> call_id]]
            /\ ret' = [op |-> "process_order_suspended", proc |-> p]
  /\ UNCHANGED <<payment_history, pending_approvals, policy,
                 wallet_mode, vault, authVars, escrowVars, mock_balance_usdc,
                 chain, now, nextId, consumed_ok>>

\* process_order from the return of wait_for_call_completion to its own
\* return: the outcome is parsed, the final state set, the response built
\* from the agent's fields and filed in the history
ProcessOrderFinish(p) ==
  /\ pending[p].pc = "waiting"
  /\ \/ \E e \in WaitErrors :
          /\ agent' = [agent EXCEPT !.state = FAILED, !.error = e]
          /\ ret' = ProcessOrderRet(p, BuildResponse(agent', pending[p].order_id), FALSE)
     \/ \E confirmed \in BOOLEAN :
          LET outcome == [confirmed |-> confirmed, call_id |-> pending[p].call_id]
              done == [agent EXCEPT !.outcome = outcome,
                                    !.state = IF confirmed THEN PLACED ELSE FAILED,
                                    !.error = IF confirmed THEN @ ELSE NotConfirmed]
              entry == [status |-> done.state, call_id |-> done.call_id,
                        outcome |-> done.outcome, error |-> done.error]
          IN  /\ agent' = [done EXCEPT !.call_history =
                                         Put(@, pending[p].order_id, entry)]
              /\ ret' = ProcessOrderRet(p, BuildResponse(agent', pending[p].order_id), FALSE)
  /\ pending' = [pending EXCEPT ![p] =
                   [pc |-> "done", order_id |-> pending[p].order_id]]
  /\ UNCHANGED <<vapi_calls, payment_history, pending_approvals, policy,
                 wallet_mode, vault, authVars, escrowVars, mock_balance_usdc,
                 chain, now, nextId, consumed_ok>>

DoProcessOrderBegin == \E p \in Procs, o \in OrderIds : ProcessOrderBegin(p, o)
DoProcessOrderCalled == \E p \in Procs : ProcessOrderCalled(p)
DoProcessOrderFinish == \E p \in Procs : ProcessOrderFinish(p)

\* NProcs requests to the calling agent, one process_order call each
NextAgent ==
  \/ DoProcessOrderBegin
  \/ DoProcessOrderCalled
  \/ DoProcessOrderFinish

SpecAgent == InitSweep /\ [][NextAgent]_vars

\* ================================================================ claims
LiveTokensOf(invoice_id) ==
  {t \in DOMAIN auth_tokens : auth_tokens[t] = invoice_id}

Minted(t) == t[2] <= nextId

\* the locks of the AUTHORIZED calls of day d
LocksOfDay(d) ==
  {e \in DOMAIN mock_escrows : mock_escrows[e].expires_at = d + ExpiryDays}

\* C1: a minted token is redeemed at most once.  A consume call on a live
\* token returns the invoice id the token is bound to and removes the token;
\* a consume call on a token that is not live returns None; a minted token
\* that has left the live set never re-enters it; so over any sequence of
\* calls the number of calls that returned the invoice id is at most one.
C1_Step ==
  \A t \in Tokens :
    /\ (ret'.op = "consume" /\ ret'.token = t) =>
          /\ ret'.result = (IF t \in DOMAIN auth_tokens THEN auth_tokens[t] ELSE None)
          /\ t \notin DOMAIN auth_tokens'
    /\ (Minted(t) /\ t \notin DOMAIN auth_tokens) => t \notin DOMAIN auth_tokens'
    /\ Get(consumed_ok', t, 0) <= 1
    /\ (Get(consumed_ok', t, 0) = 1 /\ Minted(t)) => t \notin DOMAIN auth_tokens'

C1_SingleUseToken == [][C1_Step]_vars

\* C1 witness: a token was redeemed once and a further consume call on it
\* has just returned None
C1_Witness ==
  /\ ret.op = "consume"
  /\ ret.result = None
  /\ Get(consumed_ok, ret.token, 0) = 1

\* C2 (as claimed): at most one live token is bound to any invoice id
C2_OneLiveTokenPerInvoice ==
  \A i \in Invoices : Cardinality(LiveTokensOf(i)) <= 1

\* C3 (as claimed): while a token of an AUTHORIZED call for invoice I is
\* live, an authorize call for I is REJECTED, with the duplicate reason when
\* it reaches the duplicate check, and it mints no token, creates no lock and
\* calls no transfer
C3_Step ==
  (ret'.op = "authorize" /\ LiveTokensOf(ret'.invoice_id) # {}) =>
     /\ ret'.status = REJECTED
     /\ ("duplicate" \in DOMAIN ret'.policy_checks) => ret'.error = ReasonDuplicate
     /\ ret'.transfer = "none"
     /\ auth_tokens' = auth_tokens
     /\ mock_escrows' = mock_escrows

C3_NoDuplicateAuthorization == [][C3_Step]_vars

\* C4: on every day the recorded spend, and the sum of the amounts of the
\* calls that returned AUTHORIZED that day (each left one lock), is at most
\* policy.daily_limit
C4_DailyLimit ==
  /\ \A d \in DOMAIN daily_spending : daily_spending[d] <= policy.daily_limit
  /\ \A d \in 0..MaxDay :
        /\ SumLockAmounts(LocksOfDay(d)) <= policy.daily_limit
        /\ SumLockAmounts(LocksOfDay(d)) = Get(daily_spending, d, 0)

\* C4 witness: after a day's spend reached the limit exactly, a further call
\* was rejected by the daily check
C4_Witness ==
  /\ ret.op = "authorize"
  /\ ret.status = REJECTED
  /\ ret.error = ReasonDaily
  /\ Get(daily_spending, now, 0) = policy.daily_limit
  /\ Cardinality(LocksOfDay(now)) = 2

\* C5 (as claimed): N concurrent authorize calls for distinct invoices, each
\* of amount A, on a fresh authorizer with daily_limit = (N-1)*A, none of
\* them stopped by another check or by the wallet: once all have returned,
\* exactly N-1 are AUTHORIZED
C5_Applies ==
  /\ \A p \in Procs : pending[p].pc = "done"
  /\ \A p, q \in Procs :
        p # q => pending[p].req.invoice_id # pending[q].req.invoice_id
  /\ \E a \in Amounts :
        /\ \A p \in Procs : pending[p].req.amount_usd = a
        /\ policy.daily_limit = (NProcs - 1) * a
  /\ \A p \in Procs :
        \/ pending[p].result.status = AUTHORIZED
        \/ pending[p].result.error = ReasonDaily

C5_ConcurrentDailyLimit ==
  C5_Applies =>
    Cardinality({p \in Procs : pending[p].result.status = AUTHORIZED}) = NProcs - 1

\* C6 (as claimed): the weekly total never exceeds policy.weekly_limit, and
\* the weekly_remaining of get_spending_summary is never negative
C6_WeeklyLimit ==
  /\ weekly_spending <= policy.weekly_limit
  /\ GetSpendingSummary.weekly_remaining >= 0

\* C7 (as claimed): when a call returns AUTHORIZED, the running sum of the
\* authorized amounts is at most the budget_remaining of its request
C7_RunningSumWithinBudget ==
  (ret.op = "authorize" /\ ret.status = AUTHORIZED) =>
     SumLockAmounts(DOMAIN mock_escrows) <= ret.budget_remaining[1]

\* C7 (amended): every call that returns AUTHORIZED has amount_authorized at
\* most the budget_remaining of its own request
C7_AmountWithinRequestBudget ==
  (ret.op = "authorize" /\ ret.status = AUTHORIZED) =>
     ret.amount_authorized[1] <= ret.budget_remaining[1]

\* C7 witness: a call was authorized for exactly its remaining budget while
\* the sum authorized so far is already above that budget
C7_Witness ==
  /\ ret.op = "authorize"
  /\ ret.status = AUTHORIZED
  /\ ret.amount_authorized = ret.budget_remaining
  /\ SumLockAmounts(DOMAIN mock_escrows) > ret.budget_remaining[1]

\* C8: an authorize call creates a lock exactly when its transfer reported
\* success: then one new LOCKED lock with the call's invoice id and the
\* transferred amount appears and the other locks stay as they are; a call
\* rejected by a policy check, by a failed transfer or by a raising transfer
\* leaves the lock table unchanged
C8_Step ==
  ret'.op = "authorize" =>
    IF ret'.transfer = "ok"
      THEN \E e \in EscrowIds :
             /\ e \notin DOMAIN mock_escrows
             /\ DOMAIN mock_escrows' = DOMAIN mock_escrows \cup {e}
             /\ \A x \in DOMAIN mock_escrows : mock_escrows'[x] = mock_escrows[x]
             /\ mock_escrows'[e].status = LOCKED
             /\ mock_escrows'[e].invoice_id = ret'.invoice_id
             /\ Some(mock_escrows'[e].amount_usdc) = ret'.amount_authorized
             /\ wallet_mode = "mock" =>
                   mock_balance_usdc' = mock_balance_usdc - mock_escrows'[e].amount_usdc
             /\ ret'.status = AUTHORIZED
      ELSE /\ mock_escrows' = mock_escrows
           /\ ret'.status = REJECTED
           /\ mock_balance_usdc' = mock_balance_usdc

C8_LockIffTransfer == [][C8_Step]_vars

\* C8 witness: after a transfer that succeeded and left a lock, a call whose
\* transfer failed has returned and the table still holds that one lock
C8_Witness ==
  /\ ret.op = "authorize"
  /\ ret.transfer \in {"fail", "raise"}
  /\ Cardinality(DOMAIN mock_escrows) = 1
  /\ Cardinality(DOMAIN auth_tokens) = 1

\* C9: in every step each lock stays in the table and its status either
\* stays the same or goes from LOCKED to RELEASED, REFUNDED or EXPIRED; a
\* lock in one of these three never changes status again
C9_Step ==
  \A e \in DOMAIN mock_escrows :
    /\ e \in DOMAIN mock_escrows'
    /\ \/ mock_escrows'[e].status = mock_escrows[e].status
       \/ /\ mock_escrows[e].status = LOCKED
          /\ mock_escrows'[e].status \in Terminal

IsTerminalLock(e) ==
  e \in DOMAIN mock_escrows /\ mock_escrows[e].status \in Terminal

C10_Step ==
  /\ (ret'.op = "release_to_vendor" /\ IsTerminalLock(ret'.escrow_id)) =>
        /\ ret'.release = Nil
        /\ mock_escrows' = mock_escrows
        /\ mock_releases' = mock_releases
  /\ (ret'.op = "refund_to_business" /\ IsTerminalLock(ret'.escrow_id)) =>
        /\ ret'.success = FALSE
        /\ mock_escrows' = mock_escrows
        /\ mock_releases' = mock_releases
  /\ (ret'.op = "release_to_vendor" /\ ret'.release # Nil) =>
        /\ ret'.release[1].amount_usdc = mock_escrows[ret'.escrow_id].amount_usdc
        /\ mock_escrows[ret'.escrow_id].status = LOCKED

C10_TerminalLockRefused == [][C10_Step]_vars

\* C10 witness: a lock of 150 was released once, with an EscrowRelease of
\* 150, and a second release of the same escrow id has returned nothing
C10_Witness ==
  /\ ret.op = "release_to_vendor"
  /\ mock_releases # <<>>
  /\ mock_releases[1].amount_usdc = 150
  /\ ret.release = Nil
  /\ IsTerminalLock(ret.escrow_id)
  /\ mock_escrows[ret.escrow_id].status = RELEASED
  /\ Len(mock_releases) = 1
  /\ mock_releases[1].escrow_id = ret.escrow_id
  /\ mock_releases[1].amount_usdc = mock_escrows[ret.escrow_id].amount_usdc

\* C11 (as claimed): a release_to_vendor and a refund_to_business on the
\* same lock, whichever way their reads and writes interleave, do not both
\* succeed, and a lock with an EscrowRelease record is RELEASED, never
\* REFUNDED
C11_ReleaseXorRefund ==
  /\ \A p, q \in Procs :
        (/\ pending[p].pc = "done" /\ pending[q].pc = "done"
         /\ pending[p].call = "release" /\ pending[q].call = "refund"
         /\ pending[p].escrow_id = pending[q].escrow_id)
        => ~(pending[p].success /\ pending[q].success)
  /\ \A i \in 1..Len(mock_releases) :
        mock_escrows[mock_releases[i].escrow_id].status = RELEASED

\* C12: in every state the release list holds at most one EscrowRelease per
\* escrow id, a lock has a record exactly when its status is RELEASED, and
\* the record carries the amount of its lock; in every step the records
\* already on the list stay where and as they are
ReleasesOf(e) ==
  {i \in 1..Len(mock_releases) : mock_releases[i].escrow_id = e}

C12_Inv ==
  /\ \A e \in EscrowIds : Cardinality(ReleasesOf(e)) <= 1
  /\ \A e \in DOMAIN mock_escrows :
        (mock_escrows[e].status = RELEASED) <=> (ReleasesOf(e) # {})
  /\ \A i \in 1..Len(mock_releases) :
        /\ mock_releases[i].escrow_id \in DOMAIN mock_escrows
        /\ mock_releases[i].amount_usdc =
              mock_escrows[mock_releases[i].escrow_id].amount_usdc

C12_Step ==
  /\ Len(mock_releases') >= Len(mock_releases)
  /\ \A i \in 1..Len(mock_releases) : mock_releases'[i] = mock_releases[i]

RetrySucceeds(req) == ENABLED (Authorize(req) /\ ret'.status = AUTHORIZED)

C13_Step ==
  (ret'.op = "authorize" /\ ret'.status = REJECTED) =>
     /\ UNCHANGED <<authVars, escrowVars, mock_balance_usdc, chain, nextId>>
     /\ ret'.transfer # "none" =>
           \A req \in Requests :
              (req.invoice_id = ret'.invoice_id /\ Authorize(req)) =>
                 /\ CheckPolicies(req)'.allowed
                 /\ RetrySucceeds(req)

C13_RejectedLeavesNoState == [][C13_Step]_vars

\* C13 witness: with one authorization on file (a live token, a lock, spend
\* recorded), a call for another invoice passed the checks and was rejected
\* by the wallet
C13_Witness ==
  /\ ret.op = "authorize"
  /\ ret.status = REJECTED
  /\ ret.transfer \in {"fail", "raise"}
  /\ Cardinality(DOMAIN auth_tokens) = 1
  /\ Cardinality(DOMAIN authorizations) = 1
  /\ weekly_spending > 0
  /\ LiveTokensOf(ret.invoice_id) = {}
  /\ \E req \in Requests : req.invoice_id = ret.invoice_id /\ RetrySucceeds(req)

\* C14: when the policy checks of an authorize call all pass and the
\* transfer returns success = false or raises, the call returns (it does not
\* raise) a REJECTED response whose error is the error of the wallet, whose
\* auth_token and amount_authorized are absent and whose policy_checks are
\* the four passed checks; no token is minted and no spend is recorded
C14_Step ==
  (ret'.op = "authorize" /\ ret'.transfer \in {"fail", "raise"}) =>
     /\ ret'.status = REJECTED
     /\ \E req \in Requests :
           /\ req.invoice_id = ret'.invoice_id
           /\ CheckPolicies(req).allowed
           /\ \E out \in TransferOutcomes(req.amount_usd) :
                 /\ out.kind = ret'.transfer
                 /\ ret'.error = out.error
     /\ ret'.error \notin {None, ReasonPerTransaction, ReasonDaily,
                           ReasonBudget, ReasonDuplicate}
     /\ ret'.auth_token = Nil
     /\ ret'.amount_authorized = Nil
     /\ DOMAIN ret'.policy_checks =
           {"per_transaction", "daily_limit", "budget", "duplicate"}
     /\ \A c \in DOMAIN ret'.policy_checks : ret'.policy_checks[c]
     /\ auth_tokens' = auth_tokens
     /\ token_to_escrow' = token_to_escrow
     /\ daily_spending' = daily_spending
     /\ weekly_spending' = weekly_spending
     /\ nextId' = nextId

C14_WalletFailureRejected == [][C14_Step]_vars

\* C14 witness: a transfer raised, the call returned REJECTED with the text
\* of the exception, and the spend of the day is what an earlier granted call
\* recorded
C14_Witness ==
  /\ ret.op = "authorize"
  /\ ret.transfer = "raise"
  /\ ret.status = REJECTED
  /\ ret.error = "exception"
  /\ ret.auth_token = Nil
  /\ Get(daily_spending, now, 0) = 1
  /\ Cardinality(DOMAIN auth_tokens) = 1

\* C15 (as claimed): an authorize call whose transfer timed out waiting for
\* the receipt returns REJECTED and creates no lock and no token, and the
\* funds of that attempt never arrive in escrow: at every moment the funds at
\* the escrow address are the amounts of the locks, so an invoice retried
\* after a timeout has its amount in escrow once
C15_Step ==
  (ret'.op = "authorize" /\ ret'.error = ErrorTimeout) =>
     /\ ret'.status = REJECTED
     /\ mock_escrows' = mock_escrows
     /\ auth_tokens' = auth_tokens

C15_FundsInEscrowAreLocked ==
  chain.escrow_usdc = SumLockAmounts(DOMAIN mock_escrows)

C15_TimeoutCommitsNothing ==
  [][C15_Step]_vars /\ []C15_FundsInEscrowAreLocked

\* C16: the checks are evaluated in the order per-transaction max, daily
\* limit, budget remaining, duplicate detection, up to the first one that
\* fails.  With k the position of the first failing check of a request, a
\* call with k <= 4 is REJECTED with the reason of check k, its policy_checks
\* holds checks 1..k, the first k-1 passed and check k failed, and no
\* transfer is attempted; a call that no check fails carries all four
\* checks, all passed, and is AUTHORIZED when its transfer succeeds
CheckOrder == <<"per_transaction", "daily_limit", "budget", "duplicate">>
CheckReasons == <<ReasonPerTransaction, ReasonDaily, ReasonBudget, ReasonDuplicate>>

C16_Step ==
  ret'.op = "authorize" =>
    \A req \in Requests :
      (/\ req.invoice_id = ret'.invoice_id
       /\ ret'.status = AUTHORIZED => Some(req.amount_usd) = ret'.amount_authorized
       /\ Authorize(req)) =>
        LET passes ==
              << req.amount_usd <= policy.per_transaction_max,
                 Get(daily_spending, now, 0) + req.amount_usd <= policy.daily_limit,
                 req.amount_usd <= req.budget_remaining,
                 \A r \in DOMAIN authorizations :
                    ~(authorizations[r].invoice_id = req.invoice_id
                      /\ authorizations[r].status = AUTHORIZED) >>
            failing == {i \in 1..4 : ~passes[i]}
            k == IF failing = {} THEN 4
                 ELSE CHOOSE i \in failing : \A j \in failing : i <= j
        IN  /\ DOMAIN ret'.policy_checks = {CheckOrder[i] : i \in 1..k}
            /\ \A i \in 1..k : ret'.policy_checks[CheckOrder[i]] = passes[i]
            /\ failing # {} =>
                  /\ ret'.status = REJECTED
                  /\ ret'.error = CheckReasons[k]
                  /\ ret'.transfer = "none"
            /\ failing = {} =>
                  /\ ret'.transfer # "none"
                  /\ (ret'.status = AUTHORIZED) <=> (ret'.transfer = "ok")

C16_ChecksInOrder == [][C16_Step]_vars

\* C16 witness: a call failed the daily check and its invoice is also a
\* duplicate: the reason is the daily one and the map stops at daily_limit
C16_Witness ==
  /\ ret.op = "authorize"
  /\ ret.status = REJECTED
  /\ ret.error = ReasonDaily
  /\ DOMAIN ret.policy_checks = {"per_transaction", "daily_limit"}
  /\ ret.policy_checks["per_transaction"]
  /\ ~ret.policy_checks["daily_limit"]
  /\ IsDuplicate(ret.invoice_id)

\* C17: a call that reaches the daily check passes it exactly when today's
\* recorded spend plus its amount is at most daily_limit.  With
\* per_transaction_max 500 and daily_limit 1000: an invoice of 300 on a day
\* without spend is AUTHORIZED and daily_remaining becomes 700; an invoice of
\* 400 after it is AUTHORIZED and daily_remaining becomes 300; an invoice of
\* 400 after these is REJECTED by the daily check and daily_remaining stays
\* 300; an invoice of 300 after them, which brings the day to 1000 exactly,
\* is AUTHORIZED and daily_remaining becomes 0 (each AUTHORIZED provided the
\* invoice is new and the transfer succeeds)
C17_Step ==
  ret'.op = "authorize" =>
    \A req \in ScenarioRequests :
      (req.invoice_id = ret'.invoice_id /\ Authorize(req)) =>
        LET spent == Get(daily_spending, now, 0)
            amount == req.amount_usd
            granted == ~IsDuplicate(req.invoice_id) /\ ret'.transfer = "ok"
            remaining == GetSpendingSummary.daily_remaining'
        IN  /\ "daily_limit" \in DOMAIN ret'.policy_checks
            /\ ret'.policy_checks["daily_limit"] = (spent + amount <= 1000)
            /\ (~ret'.policy_checks["daily_limit"]) =>
                  (ret'.status = REJECTED /\ ret'.error = ReasonDaily)
            /\ (spent = 0 /\ amount = 300 /\ granted) =>
                  (ret'.status = AUTHORIZED /\ remaining = 700)
            /\ (spent = 300 /\ amount = 400 /\ granted) =>
                  (ret'.status = AUTHORIZED /\ remaining = 300)
            /\ (spent = 700 /\ amount = 400) =>
                  (ret'.status = REJECTED /\ ret'.error = ReasonDaily
                   /\ remaining = 300)
            /\ (spent = 700 /\ amount = 300 /\ granted) =>
                  (ret'.status = AUTHORIZED /\ remaining = 0)

C17_DailyLimitInclusive == [][C17_Step]_vars

\* C17 witness: invoices of 300, 400 and, last, 300 were authorized on one
\* day: the day stands at the limit exactly and nothing remains
C17_Witness ==
  /\ ret.op = "authorize"
  /\ ret.status = AUTHORIZED
  /\ ret.amount_authorized = Some(300)
  /\ Get(daily_spending, now, 0) = 1000
  /\ GetSpendingSummary.daily_remaining = 0
  /\ Cardinality(LocksOfDay(now)) = 3
  /\ \E e \in LocksOfDay(now) : mock_escrows[e].amount_usdc = 400

\* C18 (as claimed): in every step, whatever the operation and whatever the
\* amount of the request, no day's total and not the weekly total decreases;
\* and when a total changes, the step is an authorize call that passed all
\* four checks and whose transfer succeeded, and the total of today and the
\* weekly total grow by exactly the amount authorized
C18_Step ==
  /\ weekly_spending' >= weekly_spending
  /\ \A d \in DOMAIN daily_spending :
        /\ d \in DOMAIN daily_spending'
        /\ daily_spending'[d] >= daily_spending[d]
  /\ (weekly_spending' # weekly_spending \/ daily_spending' # daily_spending) =>
        /\ ret'.op = "authorize"
        /\ ret'.status = AUTHORIZED
        /\ ret'.transfer = "ok"
        /\ DOMAIN ret'.policy_checks = {CheckOrder[i] : i \in 1..4}
        /\ \A c \in DOMAIN ret'.policy_checks : ret'.policy_checks[c]
        /\ weekly_spending' = weekly_spending + ret'.amount_authorized[1]
        /\ daily_spending' =
              Put(daily_spending, now,
                  Get(daily_spending, now, 0) + ret'.amount_authorized[1])

C18_TotalsOnlyGrow == [][C18_Step]_vars

\* C19: verify_auth_token(token, invoice_id) returns true exactly when the
\* token is in the live set and bound to invoice_id, and it leaves every
\* table, total and the live set as they were.  A token that a verify call
\* found live is found live by the verify call that follows and is redeemed
\* by the consume call that follows, which returns its invoice id; whatever
\* the number of verify calls, a token is redeemed at most once
C19_Step ==
  /\ ret'.op = "verify" =>
        /\ ret'.result = (/\ ret'.token \in DOMAIN auth_tokens
                          /\ auth_tokens[ret'.token] = ret'.invoice_id)
        /\ UNCHANGED <<appVars, pending_approvals,
                       policy, wallet_mode, vault, authVars, escrowVars,
                       mock_balance_usdc, chain, now, nextId, consumed_ok>>
  /\ (ret.op = "verify" /\ ret.result) =>
        /\ (ret'.op = "verify" /\ ret'.token = ret.token
            /\ ret'.invoice_id = ret.invoice_id) => ret'.result
        /\ (ret'.op = "consume" /\ ret'.token = ret.token) =>
              /\ ret'.result = ret.invoice_id
              /\ ret.token \notin DOMAIN auth_tokens'
              /\ Get(consumed_ok', ret.token, 0) = 1
  /\ \A t \in Tokens : Get(consumed_ok', t, 0) <= 1

C19_VerifyDoesNotConsume == [][C19_Step]_vars

\* C19 witness: a verify call has returned true for a token that is live,
\* after another token was redeemed and a second authorization was granted
C19_Witness ==
  /\ ret.op = "verify"
  /\ ret.result
  /\ ret.token \in DOMAIN auth_tokens
  /\ auth_tokens[ret.token] = ret.invoice_id
  /\ Get(consumed_ok, ret.token, 0) = 0
  /\ \E t \in Tokens : t # ret.token /\ Get(consumed_ok, t, 0) = 1

\* C20: get_credentials_for_injection(owner, token, invoice_id) returns
\* credentials only when the token is, at the call, live and bound to
\* invoice_id.  When it is not, the call returns nothing, looks no record up
\* and decrypts nothing, leaves the stored credentials as they are, and adds
\* one "denied" entry for the owner to the audit trail.  The call never
\* touches the live tokens
C20_Step ==
  ret'.op = "get_credentials_for_injection" =>
    LET verified == /\ ret'.auth_token \in DOMAIN auth_tokens
                    /\ auth_tokens[ret'.auth_token] = ret'.invoice_id
        n == Len(vault.access_log)
    IN  /\ ret'.result # Nil => verified
        /\ ~verified =>
              /\ ret'.result = Nil
              /\ ret'.did = {}
              /\ vault'.credentials = vault.credentials
              /\ vault'.mock_credentials = vault.mock_credentials
              /\ Len(vault'.access_log) = n + 1
              /\ SubSeq(vault'.access_log, 1, n) = vault.access_log
              /\ vault'.access_log[n + 1].action = "denied"
              /\ vault'.access_log[n + 1].business_id = ret'.business_id
        /\ verified => \A i \in 1..Len(vault'.access_log) :
                          i > n => vault'.access_log[i].action # "denied"
        /\ UNCHANGED authVars

C20_CredentialsNeedVerifiedToken == [][C20_Step]_vars

\* C20 witness: the vault on MongoDB holds the owner's record, and a call
\* that presented a live token with the invoice id of another invoice was
\* denied: nothing returned, nothing fetched, a "denied" entry after "store"
C20_Witness ==
  /\ ret.op = "get_credentials_for_injection"
  /\ ~vault.mock_mode
  /\ ret.business_id \in DOMAIN vault.credentials
  /\ ret.auth_token \in DOMAIN auth_tokens
  /\ auth_tokens[ret.auth_token] # ret.invoice_id
  /\ ret.result = Nil
  /\ ret.did = {}
  /\ Len(vault.access_log) = 2
  /\ vault.access_log[1].action = "store"
  /\ vault.access_log[2].action = "denied"

\* C21: get_credentials_for_injection hands out an owner's credentials only
\* for a token that is live for the invoice presented and whose invoice was
\* authorized for that same owner: the payer named on the escrow lock bound
\* to the token is the owner whose credentials are returned
C21_Step ==
  (ret'.op = "get_credentials_for_injection" /\ ret'.result # Nil) =>
    /\ VerifyAuthorization(ret'.auth_token, ret'.invoice_id)
    /\ ret'.auth_token \in DOMAIN token_to_escrow
    /\ token_to_escrow[ret'.auth_token] \in DOMAIN mock_escrows
    /\ mock_escrows[token_to_escrow[ret'.auth_token]].business_id = ret'.business_id

C21_CredentialsOnlyForThePayer == [][C21_Step]_vars

\* C22: every call of get_credentials_for_injection, whatever its outcome,
\* adds exactly one entry for the owner to the audit trail, and no step
\* removes or rewrites an entry already there
C22_Step ==
  LET n == Len(vault.access_log)
  IN  /\ Len(vault'.access_log) >= n
      /\ SubSeq(vault'.access_log, 1, n) = vault.access_log
      /\ ret'.op = "get_credentials_for_injection" =>
            /\ Len(vault'.access_log) = n + 1
            /\ vault'.access_log[n + 1].business_id = ret'.business_id

C22_EveryCallAudited == [][C22_Step]_vars

\* the vault v without a record for the owner, and v with one: the record
\* it already holds, or one stored from the given numbers
VaultWithout(v, business_id) ==
  [v EXCEPT !.credentials = Remove(@, business_id),
            !.mock_credentials = Remove(@, business_id)]
VaultWith(v, business_id, routing_number, account_number, account_name) ==
  IF v.mock_mode
    THEN IF business_id \in DOMAIN v.mock_credentials THEN v
         ELSE [v EXCEPT !.mock_credentials =
                 Put(@, business_id,
                     MockCredential(<<"cred", 0>>, routing_number, account_number,
                                    account_name, 0))]
    ELSE IF business_id \in DOMAIN v.credentials THEN v
         ELSE [v EXCEPT !.credentials =
                 Put(@, business_id,
                     CredentialDoc(v.key, business_id, <<"cred", 0>>,
                                   routing_number, account_number, account_name,
                                   0))]

\* C23: a call of get_credentials_for_injection whose token is not live for
\* the invoice presented returns the same value to the caller whether or not
\* the vault holds a record for the owner: the value the call returned is the
\* value the same call returns on the vault with the owner's record taken
\* away and on the vault with a record for the owner put in
C23_Step ==
  (/\ ret'.op = "get_credentials_for_injection"
   /\ ~VerifyAuthorization(ret'.auth_token, ret'.invoice_id)) =>
    LET b == ret'.business_id
        t == ret'.auth_token
        i == ret'.invoice_id
    IN  /\ GetCredentialsCall(VaultWithout(vault, b), b, t, i).result = ret'.result
        /\ \A r \in RoutingNumbers, a \in AccountNumbers, n \in AccountNames :
              GetCredentialsCall(VaultWith(vault, b, r, a, n), b, t, i).result
                = ret'.result

C23_DenialHidesRecordExistence == [][C23_Step]_vars

\* C23 witness: the vault on MongoDB holds a record for one owner and none
\* for another, and a call for the owner without a record, with a token that
\* is not live for the invoice, was refused
C23_Witness ==
  /\ ret.op = "get_credentials_for_injection"
  /\ ~vault.mock_mode
  /\ ~VerifyAuthorization(ret.auth_token, ret.invoice_id)
  /\ ret.business_id \notin DOMAIN vault.credentials
  /\ DOMAIN vault.credentials # {}
  /\ ret.result = Nil
  /\ vault.access_log[Len(vault.access_log)].action = "denied"

\* C24: what get_credential_info returns for a stored credential has no
\* field besides the credential id, the bank name and the last four digits
\* of the routing and of the account number, each of them at most four
\* digits long: no account name, no full number, no ciphertext
C24_Step ==
  (ret'.op = "get_credential_info" /\ ret'.result # Nil) =>
    LET info == ret'.result[1]
    IN  /\ DOMAIN info \subseteq
             {"credential_id", "bank_name", "routing_last4", "account_last4"}
        /\ "routing_last4" \in DOMAIN info /\ Len(info.routing_last4) <= 4
        /\ "account_last4" \in DOMAIN info /\ Len(info.account_last4) <= 4

C24_InfoIsMasked == [][C24_Step]_vars

\* the stored record of the owner does not open under the vault's key
Undecryptable(business_id) ==
  /\ ~vault.mock_mode
  /\ business_id \in DOMAIN vault.credentials
  /\ \/ ~FernetDecrypt(vault.key, vault.credentials[business_id].routing_encrypted).ok
     \/ ~FernetDecrypt(vault.key, vault.credentials[business_id].account_encrypted).ok
     \/ ~FernetDecrypt(vault.key, vault.credentials[business_id].name_encrypted).ok

\* the vault holds no record for the owner
NoRecord(business_id) ==
  IF vault.mock_mode THEN business_id \notin DOMAIN vault.mock_credentials
  ELSE business_id \notin DOMAIN vault.credentials

\* C25: a verified call of get_credentials_for_injection on a record that
\* does not decrypt returns something else than the None of "not found"
\* and "denied", and a verified call for an owner without a record returns
\* None and never the default credentials
C25_Step ==
  (/\ ret'.op = "get_credentials_for_injection"
   /\ VerifyAuthorization(ret'.auth_token, ret'.invoice_id)) =>
    /\ Undecryptable(ret'.business_id) => ret'.result # Nil
    /\ NoRecord(ret'.business_id) => ret'.result = Nil

C25_DecryptFailureSurfaced == [][C25_Step]_vars

\* the sweeps that are under way
Sweeping == {p \in Procs : pending[p].pc = "sweeping"}

\* C26 (states): no lock is counted by two sweeps, and every lock a sweep
\* has counted is EXPIRED
C26_Inv ==
  /\ \A p \in Sweeping, q \in Sweeping :
        p # q => pending[p].done \cap pending[q].done = {}
  /\ \A p \in Sweeping : \A e \in pending[p].done :
        mock_escrows[e].status = EXPIRED

\* C26 (steps): a sweep of the in-memory table moves exactly the LOCKED
\* locks with expires_at < now to EXPIRED, returns their number and leaves
\* every other lock as it was, after which no lock is left to expire, and a
\* sweep that follows another of the same time returns 0 and changes
\* nothing.  A sweep on
\* MongoDB modifies one document at a time, each LOCKED with expires_at
\* earlier than the time the sweep read, changing its status only; when it
\* returns no such lock is left, it returns the number of locks it moved,
\* and that is 0 when no lock matched as it started
C26_Step ==
  /\ ret'.op = "expire_old_locks" =>
        /\ DOMAIN mock_escrows' = DOMAIN mock_escrows
        /\ \A e \in DOMAIN mock_escrows :
              mock_escrows'[e] =
                IF mock_escrows[e].status = LOCKED /\ mock_escrows[e].expires_at < now
                  THEN [mock_escrows[e] EXCEPT !.status = EXPIRED]
                  ELSE mock_escrows[e]
        /\ ret'.count =
             Cardinality({e \in DOMAIN mock_escrows :
                            /\ mock_escrows[e].status = LOCKED
                            /\ mock_escrows[e].expires_at < now})
        /\ \A e \in DOMAIN mock_escrows' :
              ~(mock_escrows'[e].status = LOCKED /\ mock_escrows'[e].expires_at < now')
        /\ (\/ ret.op = "expire_old_locks"
            \/ (ret.op = "expire_old_locks_db" /\ ret.at = now)) =>
              (ret'.count = 0 /\ mock_escrows' = mock_escrows)
  /\ \A p \in Sweeping :
        /\ (p \in Sweeping' /\ pending'[p] # pending[p]) =>
              \E e \in DOMAIN mock_escrows :
                 /\ pending'[p] = [pending[p] EXCEPT !.done = @ \cup {e}]
                 /\ e \notin pending[p].done
                 /\ mock_escrows[e].status = LOCKED
                 /\ mock_escrows[e].expires_at < pending[p].at
                 /\ pending[p].at <= now
                 /\ mock_escrows' = [mock_escrows EXCEPT ![e].status = EXPIRED]
        /\ p \notin Sweeping' =>
              /\ ret'.op = "expire_old_locks_db"
              /\ ret'.count = Cardinality(pending[p].done)
              /\ ~pending[p].found => ret'.count = 0
              /\ mock_escrows' = mock_escrows
              /\ \A e \in DOMAIN mock_escrows :
                    ~(/\ mock_escrows[e].status = LOCKED
                      /\ mock_escrows[e].expires_at < pending[p].at)

C26_SweepExpiresExactly == []C26_Inv /\ [][C26_Step]_vars

\* C26 witness: two sweeps ran next to each other over a table with a
\* released, a refunded or an unexpired lock; one of them has counted a
\* lock and is still under way while the other has returned a count
C26_Witness ==
  /\ ret.op = "expire_old_locks_db"
  /\ \E p \in Sweeping : pending[p].done # {}
  /\ \E e \in DOMAIN mock_escrows : mock_escrows[e].status \in {RELEASED, REFUNDED, LOCKED}

\* C27: every lock that is LOCKED eventually is not: with no release and no
\* refund, the layer itself moves it to EXPIRED once its expiry has passed
C27_LocksLeaveLocked ==
  \A e \in EscrowIds :
    (e \in DOMAIN mock_escrows /\ mock_escrows[e].status = LOCKED)
      ~> (e \in DOMAIN mock_escrows /\ mock_escrows[e].status # LOCKED)

\* C28: a response cached under a request id stays there unchanged: what
\* get_authorization(R) returns once, it returns in every later state
C28_Step ==
  \A r \in DOMAIN authorizations :
    /\ r \in DOMAIN authorizations'
    /\ authorizations'[r] = authorizations[r]

C28_CachedResponseImmutable == [][C28_Step]_vars

\* C29: POST /orders/approve for an order id that is not among the pending
\* approvals answers with status 400 or 404 and does not report the order
\* as approved
C29_Step ==
  (ret'.op = "approve_order" /\ ret'.order_id \notin DOMAIN pending_approvals) =>
    /\ ret'.status_code \in {400, 404}
    /\ ret'.status # "approved"

C29_UnknownOrderRejected == [][C29_Step]_vars

\* the invoice a token was minted for, read off the escrow lock bound to it
InvoiceOfToken(t) == mock_escrows[token_to_escrow[t]].invoice_id

\* C30: after consume_auth_token(T) has redeemed T, a call of
\* get_credentials_for_injection with T and T's invoice is not refused: the
\* verification passes and the vault goes on to look the credentials up
C30_Step ==
  (/\ ret'.op = "get_credentials_for_injection"
   /\ Get(consumed_ok, ret'.auth_token, 0) >= 1
   /\ ret'.auth_token \in DOMAIN token_to_escrow
   /\ InvoiceOfToken(ret'.auth_token) = ret'.invoice_id) =>
    /\ ret'.did # {}
    /\ vault'.access_log = vault.access_log
         \/ vault'.access_log[Len(vault'.access_log)].action # "denied"

C30_RedeemThenInject == [][C30_Step]_vars

\* C31: consume_auth_token leaves the token-to-escrow binding as it is.
\* release_escrow(T, ...) and refund_escrow(T, ...) act on the lock that the
\* authorize call which minted T created, whether or not T has been redeemed:
\* they succeed exactly when that lock is LOCKED, a success moves that lock
\* to RELEASED or REFUNDED and touches no other lock, and a failure changes
\* nothing.  For a token that was never minted both calls fail and change
\* nothing.
LockOfToken(t) == EscrowId(t[2])

C31_Settles(t, success, status) ==
  IF Minted(t)
    THEN /\ t \in DOMAIN token_to_escrow
         /\ token_to_escrow[t] = LockOfToken(t)
         /\ LockOfToken(t) \in DOMAIN mock_escrows
         /\ success <=> mock_escrows[LockOfToken(t)].status = LOCKED
         /\ DOMAIN mock_escrows' = DOMAIN mock_escrows
         /\ \A e \in DOMAIN mock_escrows :
               IF success /\ e = LockOfToken(t)
                 THEN mock_escrows'[e].status = status
                 ELSE mock_escrows'[e] = mock_escrows[e]
    ELSE /\ ~success
         /\ UNCHANGED <<authVars, escrowVars, mock_balance_usdc>>

C31_Step ==
  /\ \A t \in Tokens :
        ConsumeAuthToken(t) => UNCHANGED <<token_to_escrow, escrowVars>>
  /\ \A t \in Tokens, v \in Vendors, a \in AchConfirmations :
        ReleaseEscrow(t, v, a) => C31_Settles(t, ret'.success, RELEASED)
  /\ \A t \in Tokens, r \in RefundReasons :
        RefundEscrow(t, r) => C31_Settles(t, ret'.success, REFUNDED)

C31_ConsumeKeepsEscrowBinding == [][C31_Step]_vars

\* a redeemed token has just released its escrow
C31_Witness ==
  /\ ret.op = "release_escrow"
  /\ ret.success
  /\ Get(consumed_ok, ret.auth_token, 0) = 1
  /\ ret.auth_token \notin DOMAIN auth_tokens
  /\ mock_escrows[LockOfToken(ret.auth_token)].status = RELEASED

\* C32: whether a token is valid depends on the live-token set alone, not on
\* the escrow behind it.  refund_escrow and expire_old_locks leave the live
\* tokens as they are; and for a minted token T that has not been redeemed
\* and whose lock is REFUNDED or EXPIRED, verify_auth_token(T, invoice)
\* returns true for the invoice T was minted for, and consume_auth_token(T)
\* returns that invoice id, after which T has been redeemed once.
C32_EscrowGone(t) ==
  /\ Minted(t)
  /\ Get(consumed_ok, t, 0) = 0
  /\ mock_escrows[LockOfToken(t)].status \in {REFUNDED, EXPIRED}

C32_Step ==
  /\ ret'.op \in {"refund_escrow", "expire_old_locks"} => UNCHANGED auth_tokens
  /\ (ret'.op \in {"verify", "consume"} /\ C32_EscrowGone(ret'.token)) =>
        /\ ret'.op = "verify" =>
              ret'.result = (ret'.invoice_id = InvoiceOfToken(ret'.token))
        /\ ret'.op = "consume" =>
              /\ ret'.result = InvoiceOfToken(ret'.token)
              /\ consumed_ok'[ret'.token] = 1
              /\ ret'.token \notin DOMAIN auth_tokens'

C32_TokenOutlivesEscrow ==
  /\ [](\A t \in Tokens : Get(consumed_ok, t, 0) <= 1)
  /\ [][C32_Step]_vars

\* the token of a lock that was swept to EXPIRED has just been redeemed
C32_Witness ==
  /\ ret.op = "consume"
  /\ ret.result \in Invoices
  /\ mock_escrows[LockOfToken(ret.token)].status = EXPIRED

\* C33: as long as the authorizer is not reset, every live token is bound to
\* an escrow lock that exists in the lock table and carries the invoice the
\* token is bound to; the lock of the token an AUTHORIZED response carries
\* holds the amount_authorized of that response; and neither the binding nor
\* the invoice and the amount of a lock ever change afterwards.
C33_Inv ==
  \A t \in DOMAIN auth_tokens :
     /\ t \in DOMAIN token_to_escrow
     /\ token_to_escrow[t] \in DOMAIN mock_escrows
     /\ mock_escrows[token_to_escrow[t]].invoice_id = auth_tokens[t]

C33_Step ==
  /\ (ret'.op = "authorize" /\ ret'.status = AUTHORIZED /\ nextId' # nextId) =>
        LET t == ret'.auth_token
        IN  /\ t \notin DOMAIN auth_tokens
            /\ t \in DOMAIN auth_tokens'
            /\ auth_tokens'[t] = ret'.invoice_id
            /\ t \in DOMAIN token_to_escrow'
            /\ token_to_escrow'[t] \notin DOMAIN mock_escrows
            /\ token_to_escrow'[t] \in DOMAIN mock_escrows'
            /\ Some(mock_escrows'[token_to_escrow'[t]].amount_usdc)
                 = ret'.amount_authorized
  /\ \A t \in DOMAIN token_to_escrow :
        /\ t \in DOMAIN token_to_escrow'
        /\ token_to_escrow'[t] = token_to_escrow[t]
  /\ \A e \in DOMAIN mock_escrows :
        /\ e \in DOMAIN mock_escrows'
        /\ mock_escrows'[e].invoice_id = mock_escrows[e].invoice_id
        /\ mock_escrows'[e].amount_usdc = mock_escrows[e].amount_usdc

C33_LiveTokenHasItsLock == []C33_Inv /\ [][C33_Step]_vars

\* two tokens are live, each bound to the lock of its own invoice, and one of
\* the locks has been settled already
C33_Witness ==
  /\ Cardinality(DOMAIN auth_tokens) = 2
  /\ \E t, u \in DOMAIN auth_tokens : auth_tokens[t] # auth_tokens[u]
  /\ \E t \in DOMAIN auth_tokens :
        mock_escrows[token_to_escrow[t]].status = REFUNDED

\* C34: as long as the authorizer is not reset and authorize runs without
\* suspension, the weekly spending total equals the sum of the amounts of
\* the escrow locks the authorizer created and, on the mock wallet, what was
\* taken from the wallet balance.  An authorize call that returns AUTHORIZED
\* adds its amount_authorized to all three; every other call, a rejected
\* authorize included, leaves all three as they are, so each of them is the
\* sum of amount_authorized over the AUTHORIZED responses issued.
C34_Inv ==
  /\ weekly_spending = SumLockAmounts(DOMAIN mock_escrows)
  /\ wallet_mode = "mock" => weekly_spending = InitialMockBalance - mock_balance_usdc

C34_Step ==
  LET issued == IF ret'.op = "authorize" /\ ret'.status = AUTHORIZED
                  THEN ret'.amount_authorized[1] ELSE 0
  IN  /\ weekly_spending' = weekly_spending + issued
      /\ SumLockAmounts(DOMAIN mock_escrows)' =
           SumLockAmounts(DOMAIN mock_escrows) + issued
      /\ wallet_mode = "mock" => mock_balance_usdc' = mock_balance_usdc - issued

C34_TotalsAgree == []C34_Inv /\ [][C34_Step]_vars

\* authorizations of two days on the mock wallet
C34_Witness ==
  /\ wallet_mode = "mock"
  /\ now = 1
  /\ weekly_spending = 3
  /\ Cardinality(DOMAIN mock_escrows) = 3
  /\ mock_balance_usdc = InitialMockBalance - 3
  /\ Get(daily_spending, 0, 0) = 2

\* C35: release_escrow, refund_escrow and expire_old_locks leave the daily
\* and the weekly spending totals, the authorization cache, the live-token
\* set and the wallet balance as they are, so the spending summary reads the
\* same after them: a refund or an expiry gives no allowance back.
C35_Step ==
  ret'.op \in {"release_escrow", "refund_escrow", "expire_old_locks"} =>
    /\ UNCHANGED <<daily_spending, weekly_spending, authorizations,
                   auth_tokens, mock_balance_usdc>>
    /\ GetSpendingSummary' = GetSpendingSummary

C36_Cached(invoice_id) ==
  \E r \in DOMAIN authorizations :
     /\ authorizations[r].invoice_id = invoice_id
     /\ authorizations[r].status = AUTHORIZED

C36_PassedFirstThree(checks) ==
  /\ {"per_transaction", "daily_limit", "budget"} \subseteq DOMAIN checks
  /\ checks["per_transaction"] /\ checks["daily_limit"] /\ checks["budget"]

C36_Step ==
  (ret'.op = "authorize" /\ C36_Cached(ret'.invoice_id)) =>
     /\ ret'.status = REJECTED
     /\ ret'.transfer = "none"
     /\ C36_PassedFirstThree(ret'.policy_checks) =>
          /\ ret'.error = ReasonDuplicate
          /\ ~ret'.policy_checks["duplicate"]
     /\ UNCHANGED <<authVars, escrowVars, mock_balance_usdc>>

C36_DuplicateWhileCached == [][C36_Step]_vars

\* a second authorize for an invoice was rejected as a duplicate after the
\* token of the first had been redeemed and its escrow had expired
C36_Witness ==
  /\ ret.op = "authorize"
  /\ ret.error = ReasonDuplicate
  /\ \E t \in DOMAIN token_to_escrow :
        /\ InvoiceOfToken(t) = ret.invoice_id
        /\ Get(consumed_ok, t, 0) = 1
        /\ mock_escrows[token_to_escrow[t]].status = EXPIRED

\* C38: release_to_vendor and refund_to_business decide on the stored status
\* of the lock and not on its expiry time.  Called on an existing lock they
\* succeed exactly when the lock is LOCKED, also when its expiry time has
\* passed and no sweep has reached it yet; and once a release, a refund or a
\* sweep has moved a lock out of LOCKED, no later release, refund or sweep
\* changes its status.
C38_Step ==
  /\ (ret'.op = "release_to_vendor" /\ ret'.escrow_id \in DOMAIN mock_escrows) =>
        /\ ret'.release # Nil <=> mock_escrows[ret'.escrow_id].status = LOCKED
        /\ ret'.release # Nil => mock_escrows'[ret'.escrow_id].status = RELEASED
  /\ (ret'.op = "refund_to_business" /\ ret'.escrow_id \in DOMAIN mock_escrows) =>
        /\ ret'.success <=> mock_escrows[ret'.escrow_id].status = LOCKED
        /\ ret'.success => mock_escrows'[ret'.escrow_id].status = REFUNDED
  /\ \A e \in DOMAIN mock_escrows :
        mock_escrows[e].status \in Terminal =>
          mock_escrows'[e].status = mock_escrows[e].status

C37_Step ==
  ret'.op = "pay" =>
    LET t == ret'.auth_token
        live == t \in DOMAIN auth_tokens
    IN  /\ t \notin DOMAIN auth_tokens'
        /\ ~live => ret'.status_code = 401
        /\ (live /\ auth_tokens[t] # ret'.invoice_id) => ret'.status_code = 400
        /\ ret'.status_code \in {400, 401} =>
              /\ ret'.payment = Nil
              /\ payment_history' = payment_history
        /\ ret'.payment # Nil <=> (live /\ auth_tokens[t] = ret'.invoice_id)
        /\ ret'.payment # Nil =>
              /\ ret'.status_code = 200
              /\ payment_history'[ret'.invoice_id] = ret'.payment[1]

C37_PayRedeemsBeforeComparing == [][C37_Step]_vars

\* a token was spent on a request that named the wrong invoice: the request
\* with the right invoice id has just been turned away with 401 and the
\* invoice is unpaid
C37_Witness ==
  /\ ret.op = "pay"
  /\ ret.status_code = 401
  /\ ret.auth_token \in DOMAIN token_to_escrow
  /\ InvoiceOfToken(ret.auth_token) = ret.invoice_id
  /\ Get(consumed_ok, ret.auth_token, 0) = 1
  /\ ret.invoice_id \notin DOMAIN payment_history

\* C39: process_order is idempotent per order id.  No order has more than
\* one vendor call placed for it, whether its process_order calls come one
\* after the other or run concurrently; and a response reports its own
\* order: the call id it carries is the id of a call placed for that order,
\* and it carries an error only when its state is FAILED.
C39_CallsFor(order_id) ==
  {i \in 1..Len(vapi_calls) : vapi_calls[i].order_id = order_id}

====
